---- MODULE Spec2Model ----
(***************************************************************************)
(* Research-Analytics-Platform: the model-training session, and the upload *)
(* card and the one-sample t-test of the Stats Lab.                        *)
(*                                                                         *)
(*   views/ModelTrainer.tsx        session state and its callbacks         *)
(*   components/ModelTraining.tsx  optimizeHyperparameters, trainModel     *)
(*   components/PredictionForm.tsx handleInputChange, handlePredict        *)
(*   components/FileUpload.tsx     parseFile, toggleFeature, confirm       *)
(*   components/ModelSaveLoad.tsx  saveModel, loadModel                    *)
(*   components/ModelVersions.tsx  the Load button of a version            *)
(*   components/ResultsVisualization.tsx  handleExport, the Recent table   *)
(*   components/analysis/StatisticalTests.tsx  performTTest                *)
(*   components/analysis/DataUploadAnalysis.tsx  handleFile                *)
(*   views/StatsLab.tsx            handleDataLoaded                        *)
(*                                                                         *)
(* Numbers are exact: a "number" cell is an integer, every quotient is a   *)
(* reduced fraction [num, den], and a square root is kept as the fraction  *)
(* under the root.  The importances of step 7 are rounded and the sum of   *)
(* squares of step 1 may overflow, see there.                              *)
(* The character U+2264 of the numeric target labels is written "<="       *)
(* because module text is ASCII.                                           *)
(***************************************************************************)
EXTENDS Integers, Sequences, FiniteSets, TLC

VARIABLES
    \* views/ModelTrainer.tsx, useState of AITraining
    data, config, trainedModel, recentPredictions, performanceMetrics,
    featureImportanceData, modelVersionHistory, currentModelVersion,
    \* components/ModelTraining.tsx, useState of ModelTraining
    isTraining, trainingStep, optimizedParams,
    \* components/ModelTraining.tsx, the running trainModel call
    pc, run,
    \* components/PredictionForm.tsx
    formMounted, formValues,
    \* what the collaborators saw: toasts, library calls, callbacks
    toasts, fitCalls, predictAttempts, predictCalls, lastPredict,
    \* inputs and results of the pure functions checked on their own
    hpIn, hpOut, evIn, evOut,
    \* the records handed to onPrediction, oldest first
    predictionLog,
    \* components/FileUpload.tsx, useState of FileUpload, and the parses in flight
    uploadedFile, parsedData, columnNames, selectedFeatures, targetVariable,
    columnTypes, showConfigPanel, parsing,
    \* components/analysis/DataUploadAnalysis.tsx and views/StatsLab.tsx
    \* (data, columns and columnTypes of StatsLab are labData, labColumns, labColumnTypes)
    fileName, isValid, labData, labColumns, labColumnTypes, labParsing,
    \* components/ModelSaveLoad.tsx: the files saved and the reads in flight
    downloads, reading,
    \* components/ResultsVisualization.tsx: the CSV text of the last export
    exported,
    \* components/analysis/StatisticalTests.tsx, useState of StatisticalTests
    variable1, results, assumptions

viewVars == <<data, config, trainedModel, recentPredictions, performanceMetrics,
              featureImportanceData, modelVersionHistory, currentModelVersion>>
trainVars == <<isTraining, trainingStep, optimizedParams, pc, run>>
formVars == <<formMounted, formValues>>
obsVars == <<toasts, fitCalls, predictAttempts, predictCalls, lastPredict>>
hyperVars == <<hpIn, hpOut>>
evalVars == <<evIn, evOut>>
logVars == <<predictionLog>>
uploadVars == <<uploadedFile, parsedData, columnNames, selectedFeatures, targetVariable,
                columnTypes, showConfigPanel, parsing>>
labVars == <<fileName, isValid, labData, labColumns, labColumnTypes, labParsing>>
fileVars == <<downloads, reading>>
exportVars == <<exported>>
statVars == <<variable1, results, assumptions>>
sideVars == <<exportVars, statVars>>
restVars == <<logVars, uploadVars, labVars, fileVars, sideVars>>
vars == <<viewVars, trainVars, formVars, obsVars, hyperVars, evalVars, restVars>>

----------------------------------------------------------------------------
(* Bounds of the model *)

\* longest repeating pattern a generated column is built from
MaxPattern == 2
\* grid of values Math.random() is drawn from: k / RandomLevels
RandomLevels == 2
\* rows above the minimum in the datasets of the split specification
SplitExtraRows == 1
\* largest row count and feature count given to optimizeHyperparameters
MaxDatasetSize == 1001
MaxNumFeatures == 12
\* longest test set given to the evaluation on its own
MaxTestSize == 3
\* handlePredict calls per session
MaxPredictions == 1
\* handlePredict calls of a long run of predictions, and those of them that fail
MaxHistoryAttempts == 12
MaxFailedPredictions == 1
\* files chosen in the upload cards of a session
MaxUploads == 3
\* FileReader reads of model files under way at a time
MaxReads == 1
\* The largest double, scaled down to the integers of the model, and a cell
\* value whose square is beyond it while the sum of a column of it is not
\* (as 1e200 is to Number.MAX_VALUE)
MaxDouble == 100000
Huge == 1000
\* toasts a session of uploads, training runs and loads goes on for
MaxSessionToasts == 6
\* trees of the fitted forest that vote on a prediction
ModelTrees == 2

(* Program constants *)

\* ModelTraining.tsx:67  if (data.length < 10)
MinRows == 10

----------------------------------------------------------------------------
(* Optional values: null / undefined state is the empty tuple *)

None == <<>>
Some(v) == <<v>>
IsSome(o) == o # <<>>
TheValue(o) == o[1]

(* Exact fractions *)

RECURSIVE GCD(_, _)
GCD(a, b) == IF b = 0 THEN a ELSE GCD(b, a % b)

Abs(a) == IF a < 0 THEN -a ELSE a

\* the fraction n/d in lowest terms with a positive denominator
Rat(n, d) ==
    LET g == GCD(Abs(n), Abs(d))
        s == IF d < 0 THEN -1 ELSE 1
    IN [num |-> (s * n) \div g, den |-> (s * d) \div g]

RatInt(k) == [num |-> k, den |-> 1]
RatAdd(a, b) == Rat(a.num * b.den + b.num * a.den, a.den * b.den)
RatSub(a, b) == Rat(a.num * b.den - b.num * a.den, a.den * b.den)
RatMul(a, b) == Rat(a.num * b.num, a.den * b.den)
RatDiv(a, b) == Rat(a.num * b.den, a.den * b.num)
RatGt(a, b) == a.num * b.den > b.num * a.den
RatMax(a, b) == IF RatGt(b, a) THEN b ELSE a

\* s.reduce((sum, x) => sum + x, 0): exact addition is associative, so the
\* elements lo..hi are added by halves
RECURSIVE RatSumOf(_, _, _)
RatSumOf(s, lo, hi) ==
    IF lo > hi THEN RatInt(0)
    ELSE IF lo = hi THEN s[lo]
    ELSE LET mid == (lo + hi) \div 2
         IN RatAdd(RatSumOf(s, lo, mid), RatSumOf(s, mid + 1, hi))
RatSum(s) == RatSumOf(s, 1, Len(s))

(* Sequences *)

Range(s) == {s[i] : i \in 1..Len(s)}

\* [...new Set(s)]: the distinct elements of s in first-seen order
RECURSIVE Unique(_)
Unique(s) ==
    IF s = <<>> THEN <<>>
    ELSE LET init == Unique(SubSeq(s, 1, Len(s) - 1))
             last == s[Len(s)]
         IN IF last \in Range(init) THEN init ELSE Append(init, last)

\* the place a stable ascending sort gives element i: after every smaller key
\* and after the equal keys that stand before it
\* (less[j, i] says the comparator puts element j strictly before element i)
SortedPlace(less, n, i) ==
    Cardinality({j \in 1..n : less[j, i]})
      + Cardinality({j \in 1..i : ~less[j, i] /\ ~less[i, j]})

\* Array.prototype.sort with a comparator that orders by less: a stable sort
StableSort(less, s) ==
    LET elems == SubSeq(s, 1, Len(s))
        place == SubSeq([i \in 1..Len(s) |-> SortedPlace(less, Len(s), i)], 1, Len(s))
    IN SubSeq([p \in 1..Len(s) |-> elems[CHOOSE i \in 1..Len(s) : place[i] = p]], 1, Len(s))

\* [...s].sort((a, b) => a - b) on integers
IntLess(a, b) == a < b
SortAsc(s) == StableSort([i \in 1..Len(s), j \in 1..Len(s) |-> IntLess(s[i], s[j])], s)

----------------------------------------------------------------------------
(* JavaScript values held by a parsed CSV cell (Papa.parse, dynamicTyping) *)

Null == [t |-> "null", n |-> 0, s |-> ""]
Undefined == [t |-> "undefined", n |-> 0, s |-> ""]
Num(k) == [t |-> "number", n |-> k, s |-> ""]
Str(x) == [t |-> "string", n |-> 0, s |-> x]

\* row[column]: undefined when the row has no such key
Cell(row, col) == IF col \in DOMAIN row THEN row[col] ELSE Undefined

\* the truthiness that `value || fallback` tests
Truthy(v) ==
    CASE v.t = "number" -> v.n # 0
      [] v.t = "string" -> v.s # ""
      [] OTHER -> FALSE

\* String(value)
JsString(v) ==
    CASE v.t = "number" -> ToString(v.n)
      [] v.t = "string" -> v.s
      [] v.t = "null" -> "null"
      [] OTHER -> "undefined"

\* String(value || 'unknown')
StringOrUnknown(v) == IF Truthy(v) THEN JsString(v) ELSE "unknown"

(* An object literal {} used as a map from strings.  A read map[key] finds  *)
(* the entry of key or, when there is none, what Object.prototype holds     *)
(* under that name; a write map["__proto__"] = number goes to the setter of *)
(* Object.prototype, which ignores a number, and creates no entry.          *)

\* names whose read on an object without such an entry is not undefined (a sample)
ObjectPrototypeKeys == {"constructor", "__proto__"}
\* the name whose write creates no entry
ProtoKey == "__proto__"

\* the numerals of the model: the decimal strings of 0..MaxNumeral
MaxNumeral == 10
Numerals == {ToString(k) : k \in 0..MaxNumeral}
NumeralValue(s) == CHOOSE k \in 0..MaxNumeral : ToString(k) = s

\* strings that start with a numeral and go on with other characters
NumericPrefix == [s \in {"1x"} |-> 1]

NaN == [nan |-> TRUE, n |-> 0]
Finite(k) == [nan |-> FALSE, n |-> k]

\* Number(text) for a string: the whole string must be a numeral, "" is 0
NumberOfString(s) ==
    IF s = "" THEN Finite(0)
    ELSE IF s \in Numerals THEN Finite(NumeralValue(s))
    ELSE NaN

\* Number(value)
JsNumber(v) ==
    CASE v.t = "number" -> Finite(v.n)
      [] v.t = "string" -> NumberOfString(v.s)
      [] v.t = "null" -> Finite(0)
      [] OTHER -> NaN

\* Number(value) || 0
NumberOrZero(v) == IF JsNumber(v).nan THEN 0 ELSE JsNumber(v).n

\* parseFloat(text): the longest numeric prefix, NaN when there is none
ParseFloat(s) ==
    IF s \in Numerals THEN Finite(NumeralValue(s))
    ELSE IF s \in DOMAIN NumericPrefix THEN Finite(NumericPrefix[s])
    ELSE NaN

\* n.toFixed(3) of a non-negative integer
ToFixed3(k) == ToString(k) \o ".000"

\* the text of the CSV cell that dynamicTyping turned into v
CellText(v) ==
    CASE v.t = "number" -> ToString(v.n)
      [] v.t = "string" -> v.s
      [] OTHER -> ""

----------------------------------------------------------------------------
(* components/ModelTraining.tsx: optimizeHyperparameters *)

Min(a, b) == IF a < b THEN a ELSE b

\* the feature adjustment taken from 10 features on
optimizeHyperparameters_From10(datasetSize, numFeatures) ==
    LET base == IF datasetSize < 100 THEN [nTrees |-> 50, maxDepth |-> 5, minSamples |-> 3]
                ELSE IF datasetSize < 500 THEN [nTrees |-> 100, maxDepth |-> 8, minSamples |-> 2]
                ELSE IF datasetSize < 1000 THEN [nTrees |-> 150, maxDepth |-> 12, minSamples |-> 2]
                ELSE [nTrees |-> 200, maxDepth |-> 15, minSamples |-> 3]
    IN IF numFeatures >= 10
       THEN [nTrees |-> Min(base.nTrees + 50, 250),
             maxDepth |-> Min(base.maxDepth + 3, 20),
             minSamples |-> base.minSamples]
       ELSE base

optimizeHyperparameters(datasetSize, numFeatures) ==
    LET base == IF datasetSize < 100 THEN [nTrees |-> 50, maxDepth |-> 5, minSamples |-> 3]
                ELSE IF datasetSize < 500 THEN [nTrees |-> 100, maxDepth |-> 8, minSamples |-> 2]
                ELSE IF datasetSize < 1000 THEN [nTrees |-> 150, maxDepth |-> 12, minSamples |-> 2]
                ELSE [nTrees |-> 200, maxDepth |-> 15, minSamples |-> 3]
    IN IF numFeatures > 10
       THEN [nTrees |-> Min(base.nTrees + 50, 250),
             maxDepth |-> Min(base.maxDepth + 3, 20),
             minSamples |-> base.minSamples]
       ELSE base

----------------------------------------------------------------------------
(* components/FileUpload.tsx: what an upload hands to the session *)

Columns == {"x1", "x2", "y"}

\* parseFile, complete: a column is numeric iff its first value is a number
DetectTypes(d) ==
    [col \in DOMAIN d[1] |->
        IF d[1][col].t = "number" THEN "numeric" ELSE "categorical"]

\* confirm: the configuration object built from the selections
FeatureConfiguration(d, features, target) ==
    [features |-> features, target |-> target, featureTypes |-> DetectTypes(d)]

(* The uploaded datasets of the model: a column repeats a short pattern *)

FeaturePool == {Str("a"), Str("1x"), Num(0), Num(2), Null}
TargetPool == {Str("p"), Str("q"), Num(1), Num(5), Null}

Patterns(pool) == UNION {[1..k -> pool] : k \in 1..MaxPattern}

DefaultX1 == <<Str("a"), Str("b")>>
DefaultX2 == <<Num(2), Num(0)>>
DefaultY == <<Str("p"), Str("q")>>

Cyclic(pattern, i) == pattern[((i - 1) % Len(pattern)) + 1]

Dataset(n, p1, p2, py) ==
    [i \in 1..n |-> [x1 |-> Cyclic(p1, i), x2 |-> Cyclic(p2, i), y |-> Cyclic(py, i)]]

\* the numeric target 1, 2, ..., 10 of the median scenario
MedianScenario == Dataset(MinRows, DefaultX1, DefaultX2, [i \in 1..MinRows |-> Num(i)])

\* the datasets in which one feature column alternates two values of the pool
PairedDatasets ==
    {Dataset(MinRows, <<a, b>>, DefaultX2, DefaultY) : a, b \in FeaturePool}
      \cup {Dataset(MinRows, DefaultX1, <<a, b>>, DefaultY) : a, b \in FeaturePool}

FeatureDatasets ==
    {Dataset(MinRows, p, DefaultX2, DefaultY) : p \in Patterns(FeaturePool)}
      \cup {Dataset(MinRows, DefaultX1, p, DefaultY) : p \in Patterns(FeaturePool)}
\* the datasets whose first feature column holds names of Object.prototype
ReservedKeyDatasets ==
    {Dataset(MinRows, p, DefaultX2, DefaultY) :
        p \in Patterns({Str("a")} \cup {Str(k) : k \in ObjectPrototypeKeys})}
\* a categorical target of three classes
\* a numeric feature of 0 and Huge in turn
HugeScenario == Dataset(MinRows, DefaultX1, <<Num(0), Num(Huge)>>, DefaultY)
ThreeClassScenario ==
    Dataset(MinRows, DefaultX1, DefaultX2, <<Str("p"), Str("q"), Str("r")>>)

TargetDatasets ==
    {Dataset(MinRows, DefaultX1, DefaultX2, p) : p \in Patterns(TargetPool)}
      \cup {MedianScenario, ThreeClassScenario}
ShortDatasets ==
    {Dataset(n, DefaultX1, DefaultX2, DefaultY) : n \in {1, MinRows - 1}}
SizedDatasets ==
    {Dataset(n, DefaultX1, DefaultX2, DefaultY) : n \in MinRows..(MinRows + SplitExtraRows)}

----------------------------------------------------------------------------
(* components/ModelTraining.tsx: the stages of trainModel *)

IsCategorical(cfg, col) ==
    col \in DOMAIN cfg.featureTypes /\ cfg.featureTypes[col] = "categorical"

\* a value of the feature matrix: over / sqrt(sqrtOf)
Scaled(over, sqrtOf) == [over |-> over, sqrtOf |-> sqrtOf]
Plain(k) == Scaled(RatInt(k), RatInt(1))
\* a feature value that is an object read from Object.prototype, not a number
InheritedObject == Scaled([num |-> 0, den |-> 0], [num |-> 0, den |-> 0])

ColumnStrings(d, col) == [i \in 1..Len(d) |-> StringOrUnknown(Cell(d[i], col))]
ColumnNumbers(d, col) == [i \in 1..Len(d) |-> NumberOrZero(Cell(d[i], col))]

\* uniqueValues.forEach((value, idx) => map[value] = idx)
IndexMap(uniqueValues) ==
    [v \in Range(uniqueValues) \ {ProtoKey} |->
        (CHOOSE idx \in 1..Len(uniqueValues) : uniqueValues[idx] = v) - 1]

\* step 1, categorical feature: the encoding map of a column
BuildEncodingMap(d, feature) == IndexMap(Unique(ColumnStrings(d, feature)))

\* the double Infinity, and whether a sum of non-negative doubles reaches it
Infinity == [num |-> 1, den |-> 0]
Overflows(r) == RatGt(r, RatInt(MaxDouble))

\* step 1, numeric feature: mean and population standard deviation (or 1).
\* The sum of the squares may overflow; the sum of the values of a column
\* of the model does not (Huge * rows < MaxDouble).
BuildFeatureStats(d, feature) ==
    LET values == ColumnNumbers(d, feature)
        n == Len(values)
        mean == RatDiv(RatSum([i \in 1..n |-> RatInt(values[i])]), RatInt(n))
        sq(i) == LET dv == RatSub(RatInt(values[i]), mean) IN RatMul(dv, dv)
        squares == RatSum([i \in 1..n |-> sq(i)])
        variance == IF Overflows(squares) THEN Infinity ELSE RatDiv(squares, RatInt(n))
    IN [mean |-> mean,
        std |-> [sqrtOf |-> IF variance.num = 0 THEN RatInt(1) ELSE variance]]

CategoricalFeatures(cfg) == {f \in Range(cfg.features) : IsCategorical(cfg, f)}
NumericFeatures(cfg) == Range(cfg.features) \ CategoricalFeatures(cfg)

PrepareEncodingMaps(d, cfg) == [f \in CategoricalFeatures(cfg) |-> BuildEncodingMap(d, f)]
PrepareFeatureStats(d, cfg) == [f \in NumericFeatures(cfg) |-> BuildFeatureStats(d, f)]

\* step 2: one value of the feature matrix
EncodeValue(value, feature, cfg, encodingMaps, featureStats) ==
    IF IsCategorical(cfg, feature)
    THEN LET strValue == StringOrUnknown(value)
         IN IF strValue \in DOMAIN encodingMaps[feature]
            THEN Plain(encodingMaps[feature][strValue])
            ELSE IF strValue \in ObjectPrototypeKeys
            THEN InheritedObject
            ELSE Plain(0)
    ELSE LET numValue == NumberOrZero(value)
         IN Scaled(RatSub(RatInt(numValue), featureStats[feature].mean),
                   featureStats[feature].std.sqrtOf)

EncodeRow(row, cfg, encodingMaps, featureStats) ==
    [k \in 1..Len(cfg.features) |->
        EncodeValue(Cell(row, cfg.features[k]), cfg.features[k], cfg, encodingMaps, featureStats)]

EncodeFeatures(d, cfg, encodingMaps, featureStats) ==
    [i \in 1..Len(d) |-> EncodeRow(d[i], cfg, encodingMaps, featureStats)]

\* step 3, numeric target: sorted[Math.floor(sorted.length / 2)]
MedianOf(numericTargets) == SortAsc(numericTargets)[(Len(numericTargets) \div 2) + 1]

\* step 3: labels and target encoding, or the thrown error
ProcessTarget(d, cfg) ==
    IF IsCategorical(cfg, cfg.target)
    THEN LET uniqueTargets == Unique(ColumnStrings(d, cfg.target))
             targetEncoding == IndexMap(uniqueTargets)
         IN IF Len(uniqueTargets) < 2
            THEN [thrown |-> TRUE, labels |-> <<>>, targetEncoding |-> <<>>, median |-> None]
            ELSE [thrown |-> FALSE,
                  labels |-> [i \in 1..Len(d) |-> targetEncoding[ColumnStrings(d, cfg.target)[i]]],
                  targetEncoding |-> targetEncoding,
                  median |-> None]
    ELSE LET numericTargets == ColumnNumbers(d, cfg.target)
             median == MedianOf(numericTargets)
         IN [thrown |-> FALSE,
             labels |-> [i \in 1..Len(d) |-> IF numericTargets[i] > median THEN 1 ELSE 0],
             targetEncoding |-> (("> " \o ToFixed3(median)) :> 1) @@ (("<= " \o ToFixed3(median)) :> 0),
             median |-> Some(median)]

\* a[i] = a[j] without the other half of the exchange
Swap_Overwrite(a, i, j) == [a EXCEPT ![i + 1] = a[j + 1]]

\* step 4: [a[i], a[j]] = [a[j], a[i]] on 0-based positions
Swap(a, i, j) == [a EXCEPT ![i + 1] = a[j + 1], ![j + 1] = a[i + 1]]

\* Math.floor(Math.random() * (i + 1)) when Math.random() returns level / RandomLevels
DrawIndex(level, i) == (level * (i + 1)) \div RandomLevels

\* the loop for (i = length - 1; i > 0; i--) run from position i down, draws[i] being its level
RECURSIVE ShuffleFrom(_, _, _)
ShuffleFrom(a, i, draws) ==
    IF i <= 0 THEN a
    ELSE ShuffleFrom(Swap(a, i, DrawIndex(draws[i], i)), i - 1, draws)

FisherYates(n, draws) == ShuffleFrom([k \in 1..n |-> k - 1], n - 1, draws)

\* Math.floor(data.length * 0.8)
SplitIdx(n) == (n * 8) \div 10

TrainIndices(indices) == SubSeq(indices, 1, SplitIdx(Len(indices)))
TestIndices(indices) == SubSeq(indices, SplitIdx(Len(indices)) + 1, Len(indices))

\* indices.map(i => a[i])
Pick(a, idxs) == [k \in 1..Len(idxs) |-> a[idxs[k] + 1]]

----------------------------------------------------------------------------
(* components/ModelTraining.tsx: step 6, evaluation *)

\* ModelTraining.tsx:208  Array.from({ length: 21 }, ...)
RocSteps == 21

Hits(predictions, testY) ==
    Cardinality({i \in 1..Len(testY) : predictions[i] = testY[i]})

\* the chain with its second test written as the last one (pred 0, true 1)
ConfusionMatrix_SecondTest(predictions, testY) ==
    LET idx == 1..Len(predictions)
        tp == Cardinality({i \in idx : predictions[i] = 1 /\ testY[i] = 1})
        tn == Cardinality({i \in idx : predictions[i] = 0 /\ testY[i] = 1})
        fp == Cardinality({i \in idx : predictions[i] = 1 /\ testY[i] = 0})
    IN [tp |-> tp, tn |-> tn, fp |-> fp, fn |-> Len(predictions) - tp - tn - fp]

\* the if / else-if chain of the confusion matrix: the last branch takes the rest
ConfusionMatrix(predictions, testY) ==
    LET idx == 1..Len(predictions)
        tp == Cardinality({i \in idx : predictions[i] = 1 /\ testY[i] = 1})
        tn == Cardinality({i \in idx : predictions[i] = 0 /\ testY[i] = 0})
        fp == Cardinality({i \in idx : predictions[i] = 1 /\ testY[i] = 0})
    IN [tp |-> tp, tn |-> tn, fp |-> fp, fn |-> Len(predictions) - tp - tn - fp]

\* the chain of the ROC loop: its last branch is a test of its own
RocCounts(predictions, testY) ==
    LET idx == 1..Len(predictions)
    IN [tp |-> Cardinality({i \in idx : predictions[i] = 1 /\ testY[i] = 1}),
        fp |-> Cardinality({i \in idx : predictions[i] = 1 /\ testY[i] = 0}),
        tn |-> Cardinality({i \in idx : predictions[i] = 0 /\ testY[i] = 0}),
        fn |-> Cardinality({i \in idx : predictions[i] = 0 /\ testY[i] = 1})]

RocPoint(predictions, testY) ==
    LET c == RocCounts(predictions, testY)
    IN [fpr |-> IF c.fp + c.tn > 0 THEN Rat(c.fp, c.fp + c.tn) ELSE RatInt(0),
        tpr |-> IF c.tp + c.fn > 0 THEN Rat(c.tp, c.tp + c.fn) ELSE RatInt(0)]

\* rocCurve.sort((a, b) => a.fpr - b.fpr): a stable sort
FprLess(a, b) == RatGt(b.fpr, a.fpr)
SortByFpr(s) == StableSort([i \in 1..Len(s), j \in 1..Len(s) |-> FprLess(s[i], s[j])], s)

\* the trapezoids taken over the step of the thresholds, 1/20
Auc_ThresholdStep(rocCurve) ==
    LET height(i) == RatDiv(RatAdd(rocCurve[i].tpr, rocCurve[i - 1].tpr), RatInt(2))
    IN RatSum([k \in 1..(Len(rocCurve) - 1) |-> RatMul(Rat(1, 20), height(k + 1))])
\* lines 230-235: the sum of the trapezoids between neighbouring points
Auc(rocCurve) ==
    LET width(i) == RatSub(rocCurve[i].fpr, rocCurve[i - 1].fpr)
        height(i) == RatDiv(RatAdd(rocCurve[i].tpr, rocCurve[i - 1].tpr), RatInt(2))
    IN RatSum([k \in 1..(Len(rocCurve) - 1) |-> RatMul(width(k + 1), height(k + 1))])

Percent(r) == RatMul(r, RatInt(100))

\* modelMetrics of a non-empty test set
Evaluate(predictions, testY, trainSize, targetEncoding) ==
    LET accuracy == Rat(Hits(predictions, testY), Len(testY))
        cm == ConfusionMatrix(predictions, testY)
        precision == IF cm.tp > 0 THEN Rat(cm.tp, cm.tp + cm.fp) ELSE RatInt(0)
        recall == IF cm.tp > 0 THEN Rat(cm.tp, cm.tp + cm.fn) ELSE RatInt(0)
        f1Score == IF RatGt(RatAdd(precision, recall), RatInt(0))
                   THEN RatDiv(RatMul(RatInt(2), RatMul(precision, recall)),
                               RatAdd(precision, recall))
                   ELSE RatInt(0)
        rocCurve == SortByFpr([k \in 1..RocSteps |-> RocPoint(predictions, testY)])
    IN [accuracy |-> Percent(accuracy),
        precision |-> Percent(precision),
        recall |-> Percent(recall),
        f1Score |-> Percent(f1Score),
        trainSize |-> trainSize,
        testSize |-> Len(testY),
        targetEncoding |-> targetEncoding,
        confusionMatrix |-> cm,
        rocCurve |-> rocCurve,
        auc |-> Auc(rocCurve)]

(* components/ModelTraining.tsx: step 7, permutation importance.  Its       *)
(* quotients do not come out even, so each operation is rounded as the      *)
(* arithmetic of a JavaScript number rounds it: to the nearest number of    *)
(* MantissaBits significant bits, a tie going to the even one.              *)

\* significant bits a number keeps in step 7 (a double keeps 53)
MantissaBits == 8

RECURSIVE Pow2(_)
Pow2(k) == IF k = 0 THEN 1 ELSE 2 * Pow2(k - 1)

\* n / d rounded to the nearest integer, a tie to the even one
RoundHalfEven(n, d) ==
    LET q == n \div d
        rest == n % d
    IN IF 2 * rest > d \/ (2 * rest = d /\ q % 2 = 1) THEN q + 1 ELSE q

\* n / d doubled or halved until it lies in [2^(MantissaBits-1), 2^MantissaBits)
RECURSIVE Scale(_, _)
Scale(n, d) ==
    IF n >= Pow2(MantissaBits) * d THEN Scale(n, 2 * d)
    ELSE IF n < Pow2(MantissaBits - 1) * d THEN Scale(2 * n, d)
    ELSE <<n, d>>

\* the result of an arithmetic operation whose exact value is r
Float(r) ==
    IF r.num = 0 THEN r
    ELSE LET scaled == Scale(Abs(r.num), r.den)
             mantissa == RoundHalfEven(scaled[1], scaled[2])
             sign == IF r.num < 0 THEN 0 - 1 ELSE 1
         IN Rat(sign * mantissa * (scaled[2] \div r.den), scaled[1] \div Abs(r.num))

\* s.reduce((sum, x) => sum + x, 0) over the first k elements
RECURSIVE FloatSum(_, _)
FloatSum(s, k) ==
    IF k = 0 THEN RatInt(0) ELSE Float(RatAdd(FloatSum(s, k - 1), s[k]))

\* matches / testY.length
Accuracy(predictions, testY) == Float(Rat(Hits(predictions, testY), Len(testY)))

\* baselineAccuracy - permutedAccuracy, kept when it is negative
RawImportance_Signed(permutedPreds, predictions, testY) ==
    [k \in 1..Len(permutedPreds) |->
        Float(RatSub(Accuracy(predictions, testY), Accuracy(permutedPreds[k], testY)))]

\* permutedPreds[k] are the predictions with feature k permuted
RawImportance(permutedPreds, predictions, testY) ==
    [k \in 1..Len(permutedPreds) |->
        RatMax(RatInt(0),
               Float(RatSub(Accuracy(predictions, testY), Accuracy(permutedPreds[k], testY))))]

NormalizedImportance(featureNames, raw) ==
    LET totalImportance == FloatSum(raw, Len(raw))
    IN [k \in 1..Len(featureNames) |->
          [feature |-> featureNames[k],
           importance |-> IF RatGt(totalImportance, RatInt(0))
                          THEN Float(RatMul(Float(RatDiv(raw[k], totalImportance)), RatInt(100)))
                          ELSE RatInt(0)]]

(* The library forest, ml-random-forest: what train and predict may return *)

\* a fitted forest answers with class ids it was fitted on
AnyOutputs(classes, truth) == [1..Len(truth) -> classes]
\* the forest that always answers with the smallest class id
OneOutput(classes, truth) ==
    {[i \in 1..Len(truth) |-> CHOOSE c \in classes : \A d \in classes : c <= d]}

(* Math.random over the shuffle loop: the level drawn at each position *)

GridDraws(n) == [1..(n - 1) -> 0..(RandomLevels - 1)]
StreamDraws(n) == {[i \in 1..(n - 1) |-> k] : k \in 0..(RandomLevels - 1)}
ZeroDraws(n) == {[i \in 1..(n - 1) |-> 0]}

----------------------------------------------------------------------------
(* components/ModelTraining.tsx: trainModel, one action per stage.  No other *)
(* handler runs between the stages: the call yields only at its one await,  *)
(* which resumes before any user event.                                     *)

Toast(kind, message) == [kind |-> kind, message |-> message]

\* the locals of the last trainModel call and the stages it went through
NoRun ==
    [stages |-> <<>>, params |-> None, encodingMaps |-> <<>>, featureStats |-> <<>>,
     features |-> <<>>, target |-> None, indices |-> <<>>, trainIndices |-> <<>>,
     testIndices |-> <<>>, classifier |-> None, predictions |-> <<>>,
     modelMetrics |-> None, permutedHits |-> <<>>, rawImportance |-> <<>>, importance |-> <<>>]

Staged(r, stage) == [r EXCEPT !.stages = Append(@, stage)]

featureConfig == TheValue(config)

\* the size check with the bound of another check (data.length < 3)
TooFewRows_Below3(d) == Len(d) < 3

\* if (data.length < 10)
TooFewRows(d) == Len(d) < MinRows

\* lines 65-76: validation, setIsTraining(true), optimizeHyperparameters
TrainModelStart ==
    /\ pc = "start"
    /\ IF TooFewRows(data)
       THEN /\ toasts' = Append(toasts, Toast("error", "Hey, need at least 10 rows to train this thing"))
            /\ pc' = "idle"
            /\ UNCHANGED <<isTraining, trainingStep, optimizedParams, run>>
       ELSE LET params == optimizeHyperparameters(Len(data), Len(featureConfig.features))
            IN /\ isTraining' = TRUE
               /\ trainingStep' = "Starting training..."
               /\ optimizedParams' = Some(params)
               /\ run' = [NoRun EXCEPT !.params = Some(params)]
               /\ pc' = "prepare"
               /\ UNCHANGED toasts
    /\ UNCHANGED <<viewVars, formVars, fitCalls, predictAttempts, predictCalls, lastPredict,
                   hyperVars, evalVars, restVars>>

\* lines 79-103: encoding maps and feature statistics
StepPrepare ==
    /\ pc = "prepare"
    /\ trainingStep' = "Preparing data..."
    /\ run' = [Staged(run, "prepare") EXCEPT
                  !.encodingMaps = PrepareEncodingMaps(data, featureConfig),
                  !.featureStats = PrepareFeatureStats(data, featureConfig)]
    /\ pc' = "encode"
    /\ UNCHANGED <<viewVars, isTraining, optimizedParams, formVars, obsVars, hyperVars, evalVars, restVars>>

\* lines 105-119: the feature matrix
StepEncode ==
    /\ pc = "encode"
    /\ trainingStep' = "Encoding features..."
    /\ run' = [Staged(run, "encode") EXCEPT
                  !.features = EncodeFeatures(data, featureConfig, run.encodingMaps, run.featureStats)]
    /\ pc' = "target"
    /\ UNCHANGED <<viewVars, isTraining, optimizedParams, formVars, obsVars, hyperVars, evalVars, restVars>>

\* lines 121-146: labels and target encoding; a throw goes to the catch of lines 281-283
StepTarget ==
    /\ pc = "target"
    /\ trainingStep' = "Processing target variable..."
    /\ LET t == ProcessTarget(data, featureConfig)
       IN /\ run' = [Staged(run, "target") EXCEPT !.target = Some(t)]
          /\ IF t.thrown
             THEN /\ toasts' = Append(toasts, Toast("error", "Target variable must have at least 2 unique values"))
                  /\ pc' = "finally"
             ELSE /\ pc' = "shuffle"
                  /\ UNCHANGED toasts
    /\ UNCHANGED <<viewVars, isTraining, optimizedParams, formVars, fitCalls, predictAttempts,
                   predictCalls, lastPredict, hyperVars, evalVars, restVars>>

\* lines 148-164: Fisher-Yates shuffle and the 80/20 cut
StepShuffle(drawsOfRun) ==
    /\ pc = "shuffle"
    /\ trainingStep' = "Shuffling data..."
    /\ \E draws \in drawsOfRun :
          LET indices == FisherYates(Len(data), draws)
          IN run' = [Staged(run, "shuffle") EXCEPT
                        !.indices = indices,
                        !.trainIndices = TrainIndices(indices),
                        !.testIndices = TestIndices(indices)]
    /\ pc' = "fit"
    /\ UNCHANGED <<viewVars, isTraining, optimizedParams, formVars, obsVars, hyperVars, evalVars, restVars>>

labels == TheValue(run.target).labels
trainY == Pick(labels, run.trainIndices)
testY == Pick(labels, run.testIndices)

(* A decision tree of the forest: its root node, its gain (a tree of the     *)
(* library may hold none) and the function its predict property holds.      *)

Leaf(category) == [category |-> category]
Tree(root, gain, predict) == [root |-> root, gain |-> gain, predict |-> predict]

\* the trees train may build over the class ids of its labels
FittedTrees(classes) ==
    {Tree(Leaf(c), gain, "library") : c \in classes, gain \in {None, Some(1)}}
\* every forest of ModelTrees trees
AnyForests(classes) == [1..ModelTrees -> FittedTrees(classes)]
\* the forests whose trees are all the same stump
UniformForests(classes) ==
    {[k \in 1..ModelTrees |-> Tree(Leaf(c), None, "library")] : c \in classes}
\* the one forest whose trees differ from their neighbours in root or gain
VariedForests(classes) ==
    LET low == CHOOSE c \in classes : \A d \in classes : c <= d
        high == CHOOSE c \in classes : \A d \in classes : c >= d
    IN {[k \in 1..ModelTrees |->
            Tree(Leaf(IF k % 2 = 1 THEN low ELSE high),
                 IF k = 1 THEN None ELSE Some(k), "library")]}
\* the forest of stumps that all hold the smallest class id
StumpForests(classes) ==
    {[k \in 1..ModelTrees |->
         Tree(Leaf(CHOOSE c \in classes : \A d \in classes : c <= d), None, "library")]}

\* lines 175-185: train returns and the options are attached to the forest
FitSucceeds(forests) ==
    /\ LET params == TheValue(run.params)
           classifier ==
               [options |-> [nEstimators |-> params.nTrees,
                             maxDepth |-> params.maxDepth,
                             minNumSamples |-> params.minSamples,
                             seed |-> 42,
                             encodingMaps |-> run.encodingMaps,
                             targetEncoding |-> TheValue(run.target).targetEncoding,
                             featureConfig |-> featureConfig,
                             featureStats |-> run.featureStats],
                classes |-> Range(trainY),
                trained |-> TRUE,
                estimators |-> <<>>]
       IN \E estimators \in forests :
             run' = [Staged(run, "fit") EXCEPT
                        !.classifier = Some([classifier EXCEPT !.estimators = estimators])]
    /\ pc' = "evaluate"
    /\ UNCHANGED toasts

\* lines 166-185: the forest is fitted; train may throw on an input that is not a number
StepFit(forests) ==
    /\ pc = "fit"
    /\ trainingStep' = "Training " \o ToString(TheValue(run.params).nTrees) \o " decision trees..."
    /\ fitCalls' = fitCalls + 1
    /\ \/ /\ \E i \in Range(run.trainIndices) : InheritedObject \in Range(run.features[i + 1])
          /\ run' = Staged(run, "fit")
          /\ toasts' = Append(toasts, Toast("error", "Training failed"))
          /\ pc' = "finally"
       \/ FitSucceeds(forests)
    /\ UNCHANGED <<viewVars, isTraining, optimizedParams, formVars, predictAttempts,
                   predictCalls, lastPredict, hyperVars, evalVars, restVars>>

\* classifier.predict of the library may throw on a row that holds a value
\* which is not a number; the catch of lines 280-283 takes it, and the
\* stage, whose results were not made, is not added to the stages of the run
PredictThrows(rows) == \E i \in 1..Len(rows) : InheritedObject \in Range(rows[i])
testX == Pick(run.features, run.testIndices)

\* lines 187-248: predictions on the test rows and the metrics
StepEvaluate(outputs) ==
    /\ pc = "evaluate"
    /\ trainingStep' = "Evaluating model..."
    /\ \/ /\ PredictThrows(testX)
          /\ UNCHANGED run
          /\ toasts' = Append(toasts, Toast("error", "Training failed"))
          /\ pc' = "finally"
       \/ /\ \E predictions \in outputs :
                run' = [Staged(run, "evaluate") EXCEPT
                           !.predictions = predictions,
                           !.modelMetrics = Some(Evaluate(predictions, testY, Len(run.trainIndices),
                                                          TheValue(run.target).targetEncoding))]
          /\ pc' = "importance"
          /\ UNCHANGED toasts
    /\ UNCHANGED <<viewVars, isTraining, optimizedParams, formVars, fitCalls, predictAttempts,
                   predictCalls, lastPredict, hyperVars, evalVars, restVars>>

\* lines 250-273: one permuted prediction per feature, normalised to percentages
StepImportance(outputs) ==
    /\ pc = "importance"
    /\ trainingStep' = "Calculating feature importance..."
    /\ \/ /\ PredictThrows(testX)
          /\ UNCHANGED run
          /\ toasts' = Append(toasts, Toast("error", "Training failed"))
          /\ pc' = "finally"
       \/ /\ \E permutedPreds \in [1..Len(featureConfig.features) -> outputs] :
                LET raw == RawImportance(permutedPreds, run.predictions, testY)
                IN run' = [Staged(run, "importance") EXCEPT
                              !.permutedHits = [k \in DOMAIN permutedPreds |->
                                                   Hits(permutedPreds[k], testY)],
                              !.rawImportance = raw,
                              !.importance = NormalizedImportance(featureConfig.features, raw)]
          /\ pc' = "finish"
          /\ UNCHANGED toasts
    /\ UNCHANGED <<viewVars, isTraining, optimizedParams, formVars, fitCalls, predictAttempts,
                   predictCalls, lastPredict, hyperVars, evalVars, restVars>>

(* views/ModelTrainer.tsx: the version label "v<major>.<tenth>" *)

\* tenths a version label can count up to in the model
MaxVersionTenths == 40
VersionLabel(tenths) == "v" \o ToString(tenths \div 10) \o "." \o ToString(tenths % 10)
\* parseFloat(currentModelVersion.substring(1)), in tenths
VersionTenths(label) == CHOOSE t \in 0..MaxVersionTenths : VersionLabel(t) = label
\* `v${(parseFloat(label.substring(1)) + 0.1).toFixed(1)}`
NextVersion(label) == VersionLabel(VersionTenths(label) + 1)

\* onModelTrained: the snapshot put in front of the history (id and timestamp are clock values)
VersionSnapshot(model, modelMetrics, featureImportance) ==
    [version |-> currentModelVersion,
     model |-> model,
     metrics |-> modelMetrics,
     featureImportance |-> featureImportance,
     datasetSize |-> Len(data),
     featureConfig |-> featureConfig]

\* a history that holds the newest snapshot and nothing else
PrependVersion_Replace(prev, versionSnapshot) == <<versionSnapshot>>
\* views/ModelTrainer.tsx:62: prev => [versionSnapshot, ...prev]
PrependVersion(prev, versionSnapshot) == <<versionSnapshot>> \o prev

\* lines 275-280 and onModelTrained of views/ModelTrainer.tsx:45-69
StepFinish ==
    /\ pc = "finish"
    /\ trainingStep' = "Done!"
    /\ LET model == TheValue(run.classifier)
           modelMetrics == TheValue(run.modelMetrics)
       IN /\ trainedModel' = Some(model)
          /\ performanceMetrics' = Some(modelMetrics)
          /\ featureImportanceData' = run.importance
          /\ modelVersionHistory' =
                PrependVersion(modelVersionHistory,
                               VersionSnapshot(model, modelMetrics, run.importance))
          /\ currentModelVersion' = NextVersion(currentModelVersion)
          /\ toasts' = toasts \o <<Toast("success", "Model trained successfully!"),
                                   Toast("success", "Model " \o currentModelVersion \o " trained successfully!")>>
    /\ run' = Staged(run, "finish")
    /\ pc' = "finally"
    /\ UNCHANGED <<data, config, recentPredictions, isTraining, optimizedParams, formVars,
                   fitCalls, predictAttempts, predictCalls, lastPredict, hyperVars, evalVars, restVars>>

\* the two resets written at the end of the try block: a failed run skips them
StepFinally_AfterSuccess ==
    /\ pc = "finally"
    /\ isTraining' = (isTraining /\ run.stages[Len(run.stages)] # "finish")
    /\ trainingStep' = IF run.stages[Len(run.stages)] = "finish" THEN "" ELSE trainingStep
    /\ pc' = "idle"
    /\ UNCHANGED <<viewVars, optimizedParams, run, formVars, obsVars, hyperVars, evalVars, restVars>>
\* lines 284-287: finally
StepFinally ==
    /\ pc = "finally"
    /\ isTraining' = FALSE
    /\ trainingStep' = ""
    /\ pc' = "idle"
    /\ UNCHANGED <<viewVars, optimizedParams, run, formVars, obsVars, hyperVars, evalVars, restVars>>

----------------------------------------------------------------------------
(* components/PredictionForm.tsx *)

\* the texts a form field is given
FormStrings == {"", "a", "0", "2", "1x", "zz", "constructor"}

\* useState initializer of formValues
InitialFormValues(cfg) ==
    [f \in Range(cfg.features) |->
        IF f \in DOMAIN cfg.featureTypes /\ cfg.featureTypes[f] = "numeric" THEN "0" ELSE ""]

\* the Predict tab is opened: PredictionForm mounts
MountPredictionForm ==
    /\ pc = "idle"
    /\ IsSome(trainedModel)
    /\ IsSome(config)
    /\ ~formMounted
    /\ formMounted' = TRUE
    /\ formValues' = InitialFormValues(featureConfig)
    /\ UNCHANGED <<viewVars, trainVars, obsVars, hyperVars, evalVars, restVars>>

\* setFormValues(prev => ({ ...prev, [feature]: value }))
handleInputChange(feature, value) ==
    /\ pc = "idle"
    /\ formMounted
    /\ formValues' = [f \in DOMAIN formValues \cup {feature} |->
                          IF f = feature THEN value ELSE formValues[f]]
    /\ UNCHANGED <<viewVars, trainVars, formMounted, obsVars, hyperVars, evalVars, restVars>>

FormValue(form, f) == IF f \in DOMAIN form THEN form[f] ELSE ""

\* features the form leaves empty
MissingFields(cfg, form) ==
    {f \in Range(cfg.features) : FormValue(form, f) = ""}

IsNumericField(cfg, f) == f \in DOMAIN cfg.featureTypes /\ cfg.featureTypes[f] = "numeric"

\* lines 51-71: the model input of one field, or the error its conversion throws
ConvertField(cfg, options, form, f) ==
    IF IsNumericField(cfg, f)
    THEN LET value == ParseFloat(FormValue(form, f))
         IN IF value.nan
            THEN [error |-> "Invalid numeric value", input |-> Plain(0)]
            ELSE IF f \in DOMAIN options.featureStats
            THEN [error |-> "none",
                  input |-> Scaled(RatSub(RatInt(value.n), options.featureStats[f].mean),
                                   options.featureStats[f].std.sqrtOf)]
            ELSE [error |-> "none", input |-> Plain(value.n)]
    ELSE IF f \in DOMAIN options.encodingMaps
              /\ FormValue(form, f) \in DOMAIN options.encodingMaps[f]
         THEN [error |-> "none", input |-> Plain(options.encodingMaps[f][FormValue(form, f)])]
         ELSE IF f \in DOMAIN options.encodingMaps /\ FormValue(form, f) \in ObjectPrototypeKeys
         THEN [error |-> "none", input |-> InheritedObject]
         ELSE [error |-> "Unknown category", input |-> Plain(0)]

\* the first field, in feature order, whose conversion throws; 0 when none does
FirstFailing(cfg, options, form) ==
    LET bad == {k \in 1..Len(cfg.features) :
                   ConvertField(cfg, options, form, cfg.features[k]).error # "none"}
    IN IF bad = {} THEN 0 ELSE CHOOSE k \in bad : \A j \in bad : k <= j

(* lines 77-87: what the trees of the forest answer when each is asked, a   *)
(* tree whose predict throws being skipped                                  *)

\* a tree whose predict throws
TreeThrows == 0 - 1
\* tree.predict(features)[0] of a tree that loadModel rebuilt: its predict
\* (ModelSaveLoad.tsx:83-85) returns a number, and [0] of a number is undefined
UndefinedVote == 0 - 2

AnyOutcomes(model) ==
    {[prediction |-> p, votes |-> v] :
        p \in model.classes, v \in [1..Len(model.estimators) -> model.classes \cup {TreeThrows}]}
\* the forest whose trees all answer what the forest answers
AgreeingOutcomes(model) ==
    {[prediction |-> p, votes |-> [k \in 1..Len(model.estimators) |-> p]] : p \in model.classes}

\* the rebuilt forest answers with some class id and each tree with undefined
RebuiltOutcomes(model) ==
    {[prediction |-> p, votes |-> [k \in 1..Len(model.estimators) |-> UndefinedVote]] :
        p \in model.classes}
\* a forest as train left it, or as loadModel rebuilt it
OutcomesOf(model) ==
    IF model.trained THEN AgreeingOutcomes(model) ELSE RebuiltOutcomes(model)

\* lines 92-94: the label of a class id, 'Unknown' when no label has it
DecodeClass(targetEncoding, prediction) ==
    IF \E label \in DOMAIN targetEncoding : targetEncoding[label] = prediction
    THEN CHOOSE label \in DOMAIN targetEncoding : targetEncoding[label] = prediction
    ELSE "Unknown"

\* lines 76-90: the share of the successful votes that went to the prediction
Confidence(votes, prediction) ==
    LET totalVotes == Cardinality({k \in 1..Len(votes) : votes[k] # TreeThrows})
        forPrediction == Cardinality({k \in 1..Len(votes) : votes[k] = prediction})
    IN IF totalVotes > 0 THEN Rat(forPrediction, totalVotes) ELSE Rat(1, 2)

\* views/ModelTrainer.tsx:72-74  [predictionResult, ...prev].slice(0, 10)
HistoryCap == 10
\* a history that takes the new result at its end
PushPrediction_AtEnd(prev, predictionResult) ==
    SubSeq(prev \o <<predictionResult>>, 1, Min(Len(prev) + 1, HistoryCap))
PushPrediction(prev, predictionResult) ==
    SubSeq(<<predictionResult>> \o prev, 1, Min(Len(prev) + 1, HistoryCap))

\* what the last handlePredict call did: the form it read, the model input it
\* built, and what the forest and each of its trees answered
NoPredict == [status |-> "none", form |-> <<>>, features |-> <<>>, votes |-> <<>>]

handlePredict(outcomes) ==
    /\ pc = "idle"
    /\ formMounted
    /\ IsSome(trainedModel)
    /\ predictAttempts' = predictAttempts + 1
    /\ LET cfg == featureConfig
           model == TheValue(trainedModel)
           missingFields == MissingFields(cfg, formValues)
           failing == FirstFailing(cfg, model.options, formValues)
       IN IF missingFields # {}
          THEN /\ toasts' = Append(toasts, Toast("error", "Please fill in"))
               /\ lastPredict' = [NoPredict EXCEPT !.status = "missing", !.form = formValues]
               /\ UNCHANGED <<recentPredictions, predictCalls, predictionLog>>
          ELSE IF failing # 0
          THEN /\ toasts' = Append(toasts,
                    Toast("error", ConvertField(cfg, model.options, formValues, cfg.features[failing]).error))
               /\ lastPredict' = [NoPredict EXCEPT !.status = "error", !.form = formValues]
               /\ UNCHANGED <<recentPredictions, predictCalls, predictionLog>>
          ELSE LET features == [k \in 1..Len(cfg.features) |->
                                   ConvertField(cfg, model.options, formValues, cfg.features[k]).input]
               IN \/ /\ InheritedObject \in Range(features) \/ ~model.trained
                     /\ predictCalls' = predictCalls + 1
                     /\ toasts' = Append(toasts, Toast("error", "Error making prediction"))
                     /\ lastPredict' = [NoPredict EXCEPT !.status = "thrown", !.form = formValues,
                                                          !.features = features]
                     /\ UNCHANGED <<recentPredictions, predictionLog>>
                  \/ \E outcome \in outcomes :
                        LET prediction == outcome.prediction
                            votes == outcome.votes
                            result == [inputs |-> formValues,
                                       prediction |-> DecodeClass(model.options.targetEncoding, prediction),
                                       predictionValue |-> prediction,
                                       confidence |-> Confidence(votes, prediction),
                                       targetVariable |-> cfg.target]
                        IN /\ predictCalls' = predictCalls + 1
                           /\ recentPredictions' = PushPrediction(recentPredictions, result)
                           /\ predictionLog' = Append(predictionLog, result)
                           /\ lastPredict' = [status |-> "ok", form |-> formValues,
                                               features |-> features, votes |-> votes]
                           /\ toasts' = Append(toasts, Toast("success", "Prediction"))
    /\ UNCHANGED <<data, config, trainedModel, performanceMetrics, featureImportanceData,
                   modelVersionHistory, currentModelVersion, trainVars, formVars, fitCalls,
                   hyperVars, evalVars, uploadVars, labVars, sideVars, fileVars>>

----------------------------------------------------------------------------
(* views/ModelTrainer.tsx: the callbacks and the tabs of the session.  The   *)
(* Predict tab shows the prediction form and nothing else, so an operation *)
(* of another tab is one taken while the form is not mounted.              *)

\* lines 38-42
onDataUpload(uploadedData, uploadedConfig) ==
    /\ data' = uploadedData
    /\ config' = Some(uploadedConfig)
    /\ toasts' = Append(toasts, Toast("success", "Got rows"))
    /\ UNCHANGED <<trainedModel, recentPredictions, performanceMetrics, featureImportanceData,
                   modelVersionHistory, currentModelVersion>>

\* lines 87-93; an undefined argument is stored as it is
onModelLoaded(model, modelMetrics, featureImportance, modelConfig) ==
    /\ trainedModel' = Some(model)
    /\ performanceMetrics' = modelMetrics
    /\ featureImportanceData' = IF IsSome(featureImportance) THEN TheValue(featureImportance) ELSE None
    /\ config' = modelConfig
    /\ data' = <<>>
    /\ UNCHANGED <<recentPredictions, modelVersionHistory, currentModelVersion>>

\* a version load that leaves the dataset in place
loadVersion_KeepsData(versionToLoad) ==
    /\ pc = "idle"
    /\ ~formMounted
    /\ versionToLoad.version # currentModelVersion
    /\ trainedModel' = Some(versionToLoad.model)
    /\ performanceMetrics' = Some(versionToLoad.metrics)
    /\ featureImportanceData' = versionToLoad.featureImportance
    /\ config' = Some(versionToLoad.featureConfig)
    /\ toasts' = Append(toasts, Toast("success", "Loaded " \o versionToLoad.version))
    /\ UNCHANGED <<data, recentPredictions, modelVersionHistory, currentModelVersion, trainVars,
                   formVars, fitCalls, predictAttempts, predictCalls, lastPredict, hyperVars,
                   evalVars, restVars>>
\* lines 77-84, from the Load button of a version (ModelVersions.tsx:70-75)
loadVersion(versionToLoad) ==
    /\ pc = "idle"
    /\ ~formMounted
    /\ versionToLoad.version # currentModelVersion
    /\ trainedModel' = Some(versionToLoad.model)
    /\ performanceMetrics' = Some(versionToLoad.metrics)
    /\ featureImportanceData' = versionToLoad.featureImportance
    /\ config' = Some(versionToLoad.featureConfig)
    /\ data' = <<>>
    /\ toasts' = Append(toasts, Toast("success", "Loaded " \o versionToLoad.version))
    /\ UNCHANGED <<recentPredictions, modelVersionHistory, currentModelVersion, trainVars, formVars,
                   fitCalls, predictAttempts, predictCalls, lastPredict, hyperVars, evalVars, restVars>>

\* the upload tab hands over dataset d with features x1, x2 and target y
UploadDataset(d) ==
    /\ pc = "idle"
    /\ ~formMounted
    /\ onDataUpload(d, FeatureConfiguration(d, <<"x1", "x2">>, "y"))
    /\ UNCHANGED <<trainVars, formVars, fitCalls, predictAttempts, predictCalls, lastPredict,
                   hyperVars, evalVars, restVars>>

\* ModelTraining.tsx:329-331: the Train button calls trainModel
ClickTrain ==
    /\ pc = "idle"
    /\ ~formMounted
    /\ ~isTraining
    /\ Len(data) > 0
    /\ pc' = "start"
    /\ UNCHANGED <<viewVars, isTraining, trainingStep, optimizedParams, run, formVars, obsVars,
                   hyperVars, evalVars, restVars>>

\* another tab is opened: PredictionForm unmounts
UnmountPredictionForm ==
    /\ pc = "idle"
    /\ formMounted
    /\ formMounted' = FALSE
    /\ formValues' = <<>>
    /\ UNCHANGED <<viewVars, trainVars, obsVars, hyperVars, evalVars, restVars>>

----------------------------------------------------------------------------
(* components/ModelSaveLoad.tsx *)

\* model.options of a forest that was built without options
UndefinedOptions == [encodingMaps |-> <<>>, targetEncoding |-> <<>>, featureStats |-> <<>>]

\* lines 31-44: modelData; a key whose value is undefined is None
ModelData(model, modelMetrics, featureImportance, cfg) ==
    [classifier |->
        Some([options |-> IF model.options = UndefinedOptions THEN None ELSE Some(model.options),
              trees |-> Some([k \in 1..Len(model.estimators) |->
                                 [root |-> model.estimators[k].root,
                                  gain |-> model.estimators[k].gain]])]),
     metrics |-> modelMetrics,
     featureImportance |-> IF featureImportance = <<>> THEN None ELSE Some(featureImportance),
     featureConfig |-> cfg]

\* JSON.stringify of a number: a number that is not finite is written as
\* null, which reads back as null and counts as 0 in arithmetic
JsonNull == [sqrtOf |-> RatInt(0)]
JsonNumber(x) == IF x.sqrtOf = Infinity THEN JsonNull ELSE x
\* the options as JSON holds them: the numbers in them are those of featureStats
JsonOptions(options) ==
    [options EXCEPT !.featureStats =
        [f \in DOMAIN @ |-> [mean |-> @[f].mean, std |-> JsonNumber(@[f].std)]]]

\* the text of a file: a JSON document or something else.  JSON.stringify
\* leaves out the keys whose value is undefined and turns the numbers.
JsonStringify(value) ==
    [json |-> TRUE,
     doc |-> [value EXCEPT !.classifier =
                 Some([TheValue(@) EXCEPT !.options =
                          IF IsSome(@) THEN Some(JsonOptions(TheValue(@))) ELSE None])]]
NotJson == [json |-> FALSE, doc |-> <<>>]
\* JSON.parse(text): the document, or a SyntaxError
JsonParse(text) == IF text.json THEN [thrown |-> FALSE, value |-> text.doc]
                   ELSE [thrown |-> TRUE, value |-> <<>>]

\* lines 23-64, from the Save Model button, which shows when there is a model
saveModel ==
    /\ pc = "idle"
    /\ ~formMounted
    /\ IsSome(trainedModel)
    /\ IF ~IsSome(performanceMetrics)
       THEN /\ toasts' = Append(toasts, Toast("error", "Nothing to save yet - train a model first"))
            /\ UNCHANGED downloads
       ELSE /\ downloads' = downloads \cup
                    {JsonStringify(ModelData(TheValue(trainedModel), performanceMetrics,
                                             featureImportanceData, config))}
            /\ toasts' = Append(toasts, Toast("success", "Model saved to your downloads folder"))
    /\ UNCHANGED <<viewVars, trainVars, formVars, fitCalls, predictAttempts, predictCalls,
                   lastPredict, hyperVars, evalVars, logVars, uploadVars, labVars, sideVars, reading>>

\* lines 66-70 and 105-106: a file is chosen and its read begins
loadModel(file) ==
    /\ pc = "idle"
    /\ ~formMounted
    /\ reading' = reading \cup {file}
    /\ UNCHANGED <<viewVars, trainVars, formVars, obsVars, hyperVars, evalVars, logVars,
                   uploadVars, labVars, sideVars, downloads>>

\* lines 80-89: the forest rebuilt from the options and the trees of a document
RebuiltClassifier(saved) ==
    LET options == IF IsSome(saved.options) THEN TheValue(saved.options) ELSE UndefinedOptions
        trees == TheValue(saved.trees)
    IN [options |-> options,
        classes |-> {options.targetEncoding[label] : label \in DOMAIN options.targetEncoding},
        trained |-> FALSE,
        estimators |-> [k \in 1..Len(trees) |-> Tree(trees[k].root, trees[k].gain, "predictTree")]]

\* lines 71-103: reader.onload of a read that has finished
ReaderOnload(text) ==
    /\ pc = "idle"
    /\ text \in reading
    /\ reading' = reading \ {text}
    /\ LET parsed == JsonParse(text)
           modelData == parsed.value
       IN IF \/ parsed.thrown
             \/ ~IsSome(modelData.classifier)
             \/ ~IsSome(TheValue(modelData.classifier).trees)
          THEN /\ toasts' = Append(toasts, Toast("error", "Couldn't load that file - might be corrupted"))
               /\ UNCHANGED viewVars
          ELSE /\ onModelLoaded(RebuiltClassifier(TheValue(modelData.classifier)),
                                modelData.metrics, modelData.featureImportance,
                                modelData.featureConfig)
               /\ toasts' = Append(toasts, Toast("success", "Model loaded and ready to use"))
    /\ UNCHANGED <<trainVars, formVars, fitCalls, predictAttempts, predictCalls, lastPredict,
                   hyperVars, evalVars, logVars, uploadVars, labVars, sideVars, downloads>>

----------------------------------------------------------------------------
(* components/FileUpload.tsx and components/analysis/DataUploadAnalysis.tsx: *)
(* a CSV file is chosen, Papa.parse reads it in the background, and its       *)
(* complete or error callback runs later, in any order with other events.     *)

\* a CSV file: its name, its header row, the rows Papa.parse makes of it, and
\* whether reading it fails
CsvFile(name, header, rows, broken) ==
    [name |-> name, header |-> header, rows |-> rows, broken |-> broken]
CsvRows(n, row) == [i \in 1..n |-> row]

RowABY == [a |-> Num(1), b |-> Str("u"), y |-> Str("p")]
RowCY == [c |-> Num(2), y |-> Str("q")]
CsvABY == CsvFile("aby.csv", <<"a", "b", "y">>, CsvRows(3, RowABY), FALSE)
CsvCY == CsvFile("cy.csv", <<"c", "y">>, CsvRows(3, RowCY), FALSE)
CsvShort == CsvFile("short.csv", <<"a", "b", "y">>, CsvRows(2, RowABY), FALSE)
CsvEmpty == CsvFile("empty.csv", <<>>, <<>>, FALSE)
CsvBroken == CsvFile("broken.csv", <<>>, <<>>, TRUE)

\* what a step of FileUpload leaves alone besides the session and the toasts
uploadFrame == <<trainVars, formVars, fitCalls, predictAttempts, predictCalls, lastPredict,
                 hyperVars, evalVars, logVars, labVars, sideVars, fileVars>>

\* FileUpload.tsx:42-63: a file is dropped or browsed while the drop zone shows
parseFile(csvFile) ==
    /\ pc = "idle"
    /\ ~showConfigPanel
    /\ uploadedFile' = Some(csvFile)
    /\ parsing' = parsing \cup {csvFile}
    /\ UNCHANGED <<parsedData, columnNames, selectedFeatures, targetVariable, columnTypes,
                   showConfigPanel, viewVars, toasts, uploadFrame>>

\* lines 67-88: complete
ParseComplete(csvFile) ==
    /\ pc = "idle"
    /\ csvFile \in parsing
    /\ ~csvFile.broken
    /\ parsing' = parsing \ {csvFile}
    /\ IF Len(csvFile.rows) = 0
       THEN /\ toasts' = Append(toasts, Toast("error", "File is empty"))
            /\ UNCHANGED <<parsedData, columnNames, columnTypes, showConfigPanel>>
       ELSE /\ parsedData' = csvFile.rows
            /\ columnNames' = csvFile.header
            /\ columnTypes' = DetectTypes(csvFile.rows)
            /\ showConfigPanel' = TRUE
            /\ toasts' = Append(toasts, Toast("success", "Loaded rows"))
    /\ UNCHANGED <<uploadedFile, selectedFeatures, targetVariable, viewVars, uploadFrame>>

\* lines 89-91: error
ParseError(csvFile) ==
    /\ pc = "idle"
    /\ csvFile \in parsing
    /\ csvFile.broken
    /\ parsing' = parsing \ {csvFile}
    /\ toasts' = Append(toasts, Toast("error", "Parse error"))
    /\ UNCHANGED <<uploadedFile, parsedData, columnNames, selectedFeatures, targetVariable,
                   columnTypes, showConfigPanel, viewVars, uploadFrame>>

\* lines 170-178: the Select of the configuration panel offers the columns
setTargetVariable(col) ==
    /\ pc = "idle"
    /\ showConfigPanel
    /\ col \in Range(columnNames)
    /\ targetVariable' = col
    /\ UNCHANGED <<uploadedFile, parsedData, columnNames, selectedFeatures, columnTypes,
                   showConfigPanel, parsing, viewVars, toasts, uploadFrame>>

\* lines 98-102, from the checkbox of a column, disabled for the target (line 191)
toggleFeature(featureName) ==
    /\ pc = "idle"
    /\ showConfigPanel
    /\ featureName \in Range(columnNames)
    /\ featureName # targetVariable
    /\ selectedFeatures' =
          IF featureName \in Range(selectedFeatures)
          THEN SelectSeq(selectedFeatures, LAMBDA f : f # featureName)
          ELSE Append(selectedFeatures, featureName)
    /\ UNCHANGED <<uploadedFile, parsedData, columnNames, targetVariable, columnTypes,
                   showConfigPanel, parsing, viewVars, toasts, uploadFrame>>

\* lines 105-128, from the Confirm button, disabled without a feature or a target (line 203)
confirm ==
    /\ pc = "idle"
    /\ showConfigPanel
    /\ selectedFeatures # <<>>
    /\ targetVariable # ""
    /\ IF Len(selectedFeatures) = 0
       THEN /\ toasts' = Append(toasts, Toast("error", "Please select at least one feature"))
            /\ UNCHANGED viewVars
       ELSE IF targetVariable = ""
       THEN /\ toasts' = Append(toasts, Toast("error", "Please select a target variable"))
            /\ UNCHANGED viewVars
       ELSE IF targetVariable \in Range(selectedFeatures)
       THEN /\ toasts' = Append(toasts, Toast("error", "Target variable cannot also be a feature"))
            /\ UNCHANGED viewVars
       ELSE onDataUpload(parsedData, [features |-> selectedFeatures,
                                      target |-> targetVariable,
                                      featureTypes |-> columnTypes])
    /\ UNCHANGED <<uploadVars, uploadFrame>>

\* lines 206-213: the Reset button of the configuration panel
Reset ==
    /\ pc = "idle"
    /\ showConfigPanel
    /\ showConfigPanel' = FALSE
    /\ uploadedFile' = None
    /\ parsedData' = <<>>
    /\ columnNames' = <<>>
    /\ selectedFeatures' = <<>>
    /\ targetVariable' = ""
    /\ UNCHANGED <<columnTypes, parsing, viewVars, toasts, uploadFrame>>

\* DataUploadAnalysis.tsx:17-20: numeric when more than 80% of the values are numbers
detectColumnType(values) ==
    LET numeric == {i \in DOMAIN values :
                        ~ParseFloat(CellText(values[i])).nan /\ ~JsNumber(values[i]).nan}
    IN IF 5 * Cardinality(numeric) > 4 * Len(values) THEN "numeric" ELSE "categorical"

\* what a step of the Stats Lab leaves alone besides the toasts
labFrame == <<viewVars, trainVars, formVars, fitCalls, predictAttempts, predictCalls,
              lastPredict, hyperVars, evalVars, logVars, uploadVars, fileVars, sideVars>>

\* DataUploadAnalysis.tsx:22-30: a file is chosen
handleFile(file) ==
    /\ fileName' = file.name
    /\ labParsing' = labParsing \cup {file}
    /\ UNCHANGED <<isValid, labData, labColumns, labColumnTypes, toasts, labFrame>>

\* StatsLab.tsx:25-30
handleDataLoaded(loadedData, cols, types) ==
    /\ labData' = loadedData
    /\ labColumns' = cols
    /\ labColumnTypes' = types
    /\ toasts' = Append(toasts, Toast("success", "Got rows"))

\* DataUploadAnalysis.tsx:31-50: complete
LabParseComplete(file) ==
    /\ file \in labParsing
    /\ ~file.broken
    /\ labParsing' = labParsing \ {file}
    /\ IF Len(file.rows) < 3
       THEN /\ toasts' = Append(toasts, Toast("alert", "Dataset must have at least 3 samples"))
            /\ UNCHANGED <<isValid, labData, labColumns, labColumnTypes>>
       ELSE /\ isValid' = TRUE
            /\ handleDataLoaded(file.rows, file.header,
                                [col \in Range(file.header) |->
                                    detectColumnType([i \in 1..Len(file.rows) |-> file.rows[i][col]])])
    /\ UNCHANGED <<fileName, labFrame>>

\* DataUploadAnalysis.tsx:51-53: error
LabParseError(file) ==
    /\ file \in labParsing
    /\ file.broken
    /\ labParsing' = labParsing \ {file}
    /\ toasts' = Append(toasts, Toast("alert", "Error parsing CSV"))
    /\ UNCHANGED <<fileName, isValid, labData, labColumns, labColumnTypes, labFrame>>

----------------------------------------------------------------------------
(* The pure functions on their own *)

\* optimizeHyperparameters is called on hpIn
CallOptimize ==
    /\ hpOut = None
    /\ IsSome(hpIn)
    /\ hpOut' = Some(optimizeHyperparameters(TheValue(hpIn).n, TheValue(hpIn).f))
    /\ UNCHANGED <<viewVars, trainVars, formVars, obsVars, hpIn, evalVars, restVars>>

\* class ids a test set may hold
EvalClasses == 0..2

\* the evaluation of step 6 is run on evIn
CallEvaluate ==
    /\ evOut = None
    /\ IsSome(evIn)
    /\ evOut' = Some(Evaluate(TheValue(evIn).predictions, TheValue(evIn).testY, 0, <<>>))
    /\ UNCHANGED <<viewVars, trainVars, formVars, obsVars, hyperVars, evIn, restVars>>

----------------------------------------------------------------------------
(* Specifications *)

\* the session of views/ModelTrainer.tsx:28-35 before any upload
FreshSession ==
    /\ data = <<>>
    /\ config = None
    /\ trainedModel = None
    /\ recentPredictions = <<>>
    /\ performanceMetrics = None
    /\ featureImportanceData = <<>>
    /\ modelVersionHistory = <<>>
    /\ currentModelVersion = "v1.0"

\* FileUpload.tsx:28-39, no parse in flight
FreshFileUpload ==
    /\ uploadedFile = None
    /\ parsedData = <<>>
    /\ columnNames = <<>>
    /\ selectedFeatures = <<>>
    /\ targetVariable = ""
    /\ columnTypes = <<>>
    /\ showConfigPanel = FALSE
    /\ parsing = {}

\* DataUploadAnalysis.tsx:13-14 and StatsLab.tsx:20-22, no parse in flight
FreshStatsLab ==
    /\ fileName = ""
    /\ isValid = FALSE
    /\ labData = <<>>
    /\ labColumns = <<>>
    /\ labColumnTypes = <<>>
    /\ labParsing = {}

\* no model file was saved and no FileReader is at work
FreshSaveLoad ==
    /\ downloads = {}
    /\ reading = {}

\* nothing was exported; StatisticalTests.tsx:26-29
FreshSide ==
    /\ exported = None
    /\ variable1 = ""
    /\ results = None
    /\ assumptions = None

\* ModelTraining.tsx:22-24 and PredictionForm before it mounts
FreshComponents ==
    /\ isTraining = FALSE
    /\ trainingStep = ""
    /\ optimizedParams = None
    /\ run = NoRun
    /\ formMounted = FALSE
    /\ formValues = <<>>
    /\ toasts = <<>>
    /\ fitCalls = 0
    /\ predictAttempts = 0
    /\ predictCalls = 0
    /\ lastPredict = NoPredict
    /\ predictionLog = <<>>
    /\ FreshFileUpload
    /\ FreshStatsLab
    /\ FreshSaveLoad
    /\ FreshSide

NoPureCalls == hpIn = None /\ hpOut = None /\ evIn = None /\ evOut = None

\* dataset d was uploaded with features x1, x2 and target y, and Train was clicked
Uploaded(d) ==
    /\ data = d
    /\ config = Some(FeatureConfiguration(d, <<"x1", "x2">>, "y"))
    /\ trainedModel = None
    /\ recentPredictions = <<>>
    /\ performanceMetrics = None
    /\ featureImportanceData = <<>>
    /\ modelVersionHistory = <<>>
    /\ currentModelVersion = "v1.0"
    /\ pc = "start"
    /\ FreshComponents
    /\ NoPureCalls

\* the class ids the fitted forest can answer with: those of its training labels
ForestClasses == TheValue(run.classifier).classes

\* one trainModel call on an uploaded dataset
Init ==
    \E d \in FeatureDatasets \cup ReservedKeyDatasets \cup TargetDatasets \cup ShortDatasets :
        Uploaded(d)

Next ==
    \/ TrainModelStart
    \/ StepPrepare
    \/ StepEncode
    \/ StepTarget
    \/ StepShuffle(StreamDraws(Len(data)))
    \/ StepFit(StumpForests(Range(trainY)))
    \/ StepEvaluate(AnyOutputs(ForestClasses, testY))
    \/ StepImportance(AnyOutputs(ForestClasses, testY))
    \/ StepFinish
    \/ StepFinally

Spec == Init /\ [][Next]_vars

\* the shuffle and split of one trainModel call, every draw on the grid
InitSplit == \E d \in SizedDatasets : Uploaded(d)

NextSplit ==
    \/ TrainModelStart
    \/ StepPrepare
    \/ StepEncode
    \/ StepTarget
    \/ StepShuffle(GridDraws(Len(data)))

SpecSplit == InitSplit /\ [][NextSplit]_vars

\* one trainModel call followed by predictions with the trained model
InitPredict == \E d \in PairedDatasets : Uploaded(d)

NextPredict ==
    \/ TrainModelStart
    \/ StepPrepare
    \/ StepEncode
    \/ StepTarget
    \/ StepShuffle(ZeroDraws(Len(data)))
    \/ StepFit(StumpForests(Range(trainY)))
    \/ StepEvaluate(OneOutput(ForestClasses, testY))
    \/ StepImportance(OneOutput(ForestClasses, testY))
    \/ StepFinish
    \/ StepFinally
    \/ MountPredictionForm
    \/ /\ predictAttempts < MaxPredictions
       /\ \E feature \in Range(featureConfig.features), value \in FormStrings :
             handleInputChange(feature, value)
    \/ /\ predictAttempts < MaxPredictions
       /\ handlePredict(AgreeingOutcomes(TheValue(trainedModel)))

SpecPredict == InitPredict /\ [][NextPredict]_vars

\* one trainModel call, then predictions in which the forest and each tree,
\* asked on its own, answer with any class
InitVote == Uploaded(Dataset(MinRows, DefaultX1, DefaultX2, DefaultY))

NextVote ==
    \/ TrainModelStart
    \/ StepPrepare
    \/ StepEncode
    \/ StepTarget
    \/ StepShuffle(ZeroDraws(Len(data)))
    \/ StepFit(StumpForests(Range(trainY)))
    \/ StepEvaluate(OneOutput(ForestClasses, testY))
    \/ StepImportance(OneOutput(ForestClasses, testY))
    \/ StepFinish
    \/ StepFinally
    \/ MountPredictionForm
    \/ /\ predictAttempts < MaxPredictions
       /\ \E feature \in Range(featureConfig.features), value \in FormStrings :
             handleInputChange(feature, value)
    \/ /\ predictAttempts < MaxPredictions
       /\ handlePredict(AnyOutcomes(TheValue(trainedModel)))

SpecVote == InitVote /\ [][NextVote]_vars

\* one trainModel call, then a long run of predictions with a valid and an
\* unknown category in the form
InitHistory == Uploaded(Dataset(MinRows, DefaultX1, DefaultX2, DefaultY))

FailedPredictions == predictAttempts - Len(predictionLog)
FormFails ==
    \/ MissingFields(featureConfig, formValues) # {}
    \/ FirstFailing(featureConfig, TheValue(trainedModel).options, formValues) # 0

NextHistory ==
    \/ TrainModelStart
    \/ StepPrepare
    \/ StepEncode
    \/ StepTarget
    \/ StepShuffle(ZeroDraws(Len(data)))
    \/ StepFit(StumpForests(Range(trainY)))
    \/ StepEvaluate(OneOutput(ForestClasses, testY))
    \/ StepImportance(OneOutput(ForestClasses, testY))
    \/ StepFinish
    \/ StepFinally
    \/ MountPredictionForm
    \/ /\ predictAttempts < MaxHistoryAttempts
       /\ \E value \in {"a", "zz"} : handleInputChange("x1", value)
    \/ /\ predictAttempts < MaxHistoryAttempts
       /\ FormFails => FailedPredictions < MaxFailedPredictions
       /\ handlePredict(AgreeingOutcomes(TheValue(trainedModel)))

SpecHistory == InitHistory /\ [][NextHistory]_vars

\* the files made of a saved document by taking one of its parts away
Lacking(file) ==
    LET doc == file.doc
        classifier == TheValue(doc.classifier)
    IN {[json |-> TRUE, doc |-> damaged] :
           damaged \in {[doc EXCEPT !.classifier = None],
                         [doc EXCEPT !.classifier = Some([classifier EXCEPT !.options = None])],
                         [doc EXCEPT !.classifier = Some([classifier EXCEPT !.trees = None])],
                         [doc EXCEPT !.metrics = None],
                         [doc EXCEPT !.featureImportance = None],
                         [doc EXCEPT !.featureConfig = None]}}
\* the files a user may pick: the saved ones, damaged ones, and one that is not JSON
FilesOnDisk == downloads \cup {NotJson} \cup UNION {Lacking(file) : file \in downloads}

\* one trainModel call, then saves and loads of model files
FileDatasets == {Dataset(MinRows, DefaultX1, DefaultX2, DefaultY), HugeScenario}
InitFiles == \E d \in FileDatasets : Uploaded(d)

NextFiles ==
    \/ TrainModelStart
    \/ StepPrepare
    \/ StepEncode
    \/ StepTarget
    \/ StepShuffle(ZeroDraws(Len(data)))
    \/ StepFit(VariedForests(Range(trainY)))
    \/ StepEvaluate(OneOutput(ForestClasses, testY))
    \/ StepImportance(OneOutput(ForestClasses, testY))
    \/ StepFinish
    \/ StepFinally
    \/ Len(toasts) < MaxSessionToasts /\ saveModel
    \/ /\ Len(toasts) < MaxSessionToasts
       /\ Cardinality(reading) < MaxReads
       /\ \E file \in FilesOnDisk : loadModel(file)
    \/ \E text \in reading : ReaderOnload(text)

SpecFiles == InitFiles /\ [][NextFiles]_vars

\* the upload cards of the trainer and of the Stats Lab: files are chosen,
\* parsed and reset, MaxUploads times in all
UploadFiles == {CsvABY, CsvEmpty, CsvBroken}
LabFiles == {CsvABY, CsvShort, CsvBroken}
InitAnalysis == FreshSession /\ pc = "idle" /\ FreshComponents /\ NoPureCalls
UploadsBegun == Len(toasts) + Cardinality(parsing) + Cardinality(labParsing)

NextAnalysis ==
    \/ UploadsBegun < MaxUploads /\ \E csvFile \in UploadFiles : parseFile(csvFile)
    \/ \E csvFile \in parsing : ParseComplete(csvFile)
    \/ \E csvFile \in parsing : ParseError(csvFile)
    \/ Reset
    \/ UploadsBegun < MaxUploads /\ \E file \in LabFiles : handleFile(file)
    \/ \E file \in labParsing : LabParseComplete(file)
    \/ \E file \in labParsing : LabParseError(file)

SpecAnalysis == InitAnalysis /\ [][NextAnalysis]_vars

\* FileUpload on its own: files of different columns are chosen one after
\* another, their parses complete in any order, and the panel is used
PanelFiles == {CsvABY, CsvCY, CsvEmpty}
InitUpload == FreshSession /\ pc = "idle" /\ FreshComponents /\ NoPureCalls

NextUpload ==
    \/ UploadsBegun < MaxUploads /\ \E csvFile \in PanelFiles : parseFile(csvFile)
    \/ \E csvFile \in parsing : ParseComplete(csvFile)
    \/ \E col \in Range(columnNames) : setTargetVariable(col)
    \/ \E featureName \in Range(columnNames) : toggleFeature(featureName)
    \/ Len(toasts) < MaxUploads /\ confirm
    \/ Reset

SpecUpload == InitUpload /\ [][NextUpload]_vars

\* a session of uploads, training runs, predictions, version loads, saves and
\* file loads, as long as MaxSessionToasts toasts
SessionDatasets ==
    {Dataset(MinRows, DefaultX1, DefaultX2, DefaultY),
     Dataset(MinRows - 1, DefaultX1, DefaultX2, DefaultY)}

InitSession ==
    /\ FreshSession
    /\ pc = "idle"
    /\ FreshComponents
    /\ NoPureCalls

Budget == Len(toasts) < MaxSessionToasts

NextSession ==
    \/ Budget /\ \E d \in SessionDatasets : UploadDataset(d)
    \/ Budget /\ ClickTrain
    \/ TrainModelStart
    \/ StepPrepare
    \/ StepEncode
    \/ StepTarget
    \/ StepShuffle(ZeroDraws(Len(data)))
    \/ StepFit(UniformForests(Range(trainY)))
    \/ StepEvaluate(OneOutput(ForestClasses, testY))
    \/ StepImportance(OneOutput(ForestClasses, testY))
    \/ StepFinish
    \/ StepFinally
    \/ Budget /\ \E k \in 1..Len(modelVersionHistory) : loadVersion(modelVersionHistory[k])
    \/ Budget /\ saveModel
    \/ Budget /\ \E file \in downloads \cup {NotJson} : loadModel(file)
    \/ \E text \in reading : ReaderOnload(text)
    \/ MountPredictionForm
    \/ UnmountPredictionForm
    \/ handleInputChange("x1", "a")
    \/ Budget /\ handlePredict(OutcomesOf(TheValue(trainedModel)))

SpecSession == InitSession /\ [][NextSession]_vars

\* optimizeHyperparameters on every row count and feature count of the bounds
InitHyper ==
    /\ FreshSession
    /\ pc = "idle"
    /\ FreshComponents
    /\ hpIn \in {Some([n |-> n, f |-> f]) : n \in 0..MaxDatasetSize, f \in 0..MaxNumFeatures}
    /\ hpOut = None
    /\ evIn = None
    /\ evOut = None

NextHyper == CallOptimize

SpecHyper == InitHyper /\ [][NextHyper]_vars

\* the evaluation on every pair of equally long class-id arrays of the bounds
EvalInputs(k) ==
    {[predictions |-> p, testY |-> t] :
        p \in [1..k -> EvalClasses], t \in [1..k -> EvalClasses]}

InitEval ==
    /\ FreshSession
    /\ pc = "idle"
    /\ FreshComponents
    /\ hpIn = None
    /\ hpOut = None
    /\ \E k \in 1..MaxTestSize : \E x \in EvalInputs(k) : evIn = Some(x)
    /\ evOut = None

NextEval == CallEvaluate

SpecEval == InitEval /\ [][NextEval]_vars

----------------------------------------------------------------------------
(* Properties *)

hpN == TheValue(hpIn).n
hpF == TheValue(hpIn).f

\* the table of the hyperparameter policy, by row count
PolicyRow(n) ==
    CASE n < 100 -> <<50, 5, 3>>
      [] n >= 100 /\ n < 500 -> <<100, 8, 2>>
      [] n >= 500 /\ n < 1000 -> <<150, 12, 2>>
      [] n >= 1000 -> <<200, 15, 3>>

\* C1: optimizeHyperparameters returns the table row of the row count, and
\* exactly when there are more than 10 features maxDepth becomes
\* min(maxDepth + 3, 20) and trees min(trees + 50, 250), minSamples unchanged.
C1_HyperparameterTable ==
    IsSome(hpOut) =>
        LET row == PolicyRow(hpN)
            out == TheValue(hpOut)
        IN /\ out.minSamples = row[3]
           /\ hpF > 10 => /\ out.nTrees = Min(row[1] + 50, 250)
                          /\ out.maxDepth = Min(row[2] + 3, 20)
           /\ hpF <= 10 => /\ out.nTrees = row[1]
                           /\ out.maxDepth = row[2]

\* a dataset of at least 1000 rows with more than 10 features was given its parameters
C1_Witness ==
    /\ IsSome(hpOut)
    /\ hpN >= 1000
    /\ hpF > 10
    /\ TheValue(hpOut) = [nTrees |-> 250, maxDepth |-> 18, minSamples |-> 3]

\* the classes the target column of a dataset yields: its distinct strings when
\* it is categorical, the sides of its median that are taken when it is numeric
TargetClasses(d, cfg) ==
    IF IsCategorical(cfg, cfg.target)
    THEN Range(ColumnStrings(d, cfg.target))
    ELSE Range(ProcessTarget(d, cfg).labels)

LastToast == toasts[Len(toasts)]

\* C2: on a dataset of at least 10 rows whose target yields fewer than 2
\* distinct classes, trainModel reports an error and stops before the forest is
\* fitted, and onModelTrained is not called.
C2_SingleClassAborts ==
    (Len(data) >= MinRows /\ Cardinality(TargetClasses(data, featureConfig)) < 2) =>
        /\ fitCalls = 0
        /\ trainedModel = None
        /\ modelVersionHistory = <<>>
        /\ pc = "idle" => (toasts # <<>> /\ LastToast.kind = "error")

\* C3: trainModel on fewer than 10 rows reports an error and runs no stage:
\* no hyperparameters, no preprocessing, shuffle or fit, no onModelTrained,
\* and isTraining is never true.
C3_TooFewRowsStops ==
    Len(data) < MinRows =>
        /\ isTraining = FALSE
        /\ optimizedParams = None
        /\ run = NoRun
        /\ fitCalls = 0
        /\ trainedModel = None
        /\ performanceMetrics = None
        /\ modelVersionHistory = <<>>
        /\ pc \in {"start", "idle"}
        /\ pc = "idle" => (Len(toasts) = 1 /\ LastToast.kind = "error")

\* trainModel has returned on a dataset of 9 rows
C3_Witness ==
    /\ Len(data) = MinRows - 1
    /\ pc = "idle"
    /\ toasts # <<>>

\* C4: for every N >= 10 and every outcome of the draws, train and test
\* indices partition 0..N-1 without repeats, |train| = floor(0.8 N) and
\* |test| = N - floor(0.8 N) >= 2.
C4_SplitPartitions ==
    (run.stages # <<>> /\ run.stages[Len(run.stages)] = "shuffle") =>
        LET N == Len(data)
            train == run.trainIndices
            test == run.testIndices
            cut == CHOOSE k \in 0..N : 10 * k <= 8 * N /\ 8 * N < 10 * (k + 1)
        IN /\ N >= MinRows
           /\ Range(train) \cup Range(test) = 0..(N - 1)
           /\ Range(train) \cap Range(test) = {}
           /\ Cardinality(Range(train)) = Len(train)
           /\ Cardinality(Range(test)) = Len(test)
           /\ Len(train) = cut
           /\ Len(test) = N - cut
           /\ Len(test) >= 2

\* a shuffle of 11 indices that moved the first and the last one was cut 8 to 3
C4_Witness ==
    /\ run.stages # <<>>
    /\ run.stages[Len(run.stages)] = "shuffle"
    /\ Len(data) = MinRows + 1
    /\ run.indices[1] # 0
    /\ run.indices[Len(data)] # Len(data) - 1
    /\ Len(run.trainIndices) = 8
    /\ Len(run.testIndices) = 3

\* a categorical feature whose submitted value has no entry in the stored map
UnseenCategory(cfg, options, form) ==
    \E f \in Range(cfg.features) :
        /\ ~IsNumericField(cfg, f)
        /\ \/ f \notin DOMAIN options.encodingMaps
           \/ FormValue(form, f) \notin DOMAIN options.encodingMaps[f]

\* C5: handlePredict with a categorical value that has no entry in the stored
\* encoding map fails with an error: model.predict and onPrediction are not
\* called, the prediction history and the model with its encodings are unchanged.
C5_UnseenCategoryFails ==
    [][(/\ predictAttempts' = predictAttempts + 1
        /\ UnseenCategory(featureConfig, TheValue(trainedModel).options, formValues))
        => /\ predictCalls' = predictCalls
           /\ recentPredictions' = recentPredictions
           /\ trainedModel' = trainedModel
           /\ lastPredict'.status \in {"missing", "error"}
           /\ Len(toasts') = Len(toasts) + 1
           /\ toasts'[Len(toasts')].kind = "error"]_vars

\* the raw feature values of row r as they are typed into the prediction form
RowForm(r) ==
    [f \in Range(featureConfig.features) |-> CellText(Cell(data[r], f))]

\* C6: submitting the raw feature values of a training row to the predictor
\* yields the feature vector the training transform produced for that row,
\* including rows with a missing, empty or 0 categorical value and rows with
\* a missing or non-numeric numeric value.
C6_SameTransformAsTraining ==
    \A r \in 1..Len(data) :
        (lastPredict.status # "none" /\ lastPredict.form = RowForm(r)) =>
            /\ lastPredict.status = "ok"
            /\ lastPredict.features = run.features[r]

\* a cell that holds a value
Present(x) == x.t \in {"number", "string"}

\* the index the training transform gave to row i in the k-th feature
EncodedIndex(i, k) == run.features[i][k].over.num

\* C7: for every categorical value x of the training data, in a feature column
\* or in the target column, the reverse lookup of the index assigned to x is
\* the string form of x.
C7_DecodeEncode ==
    /\ "encode" \in Range(run.stages) =>
          \A k \in 1..Len(featureConfig.features), i \in 1..Len(data) :
              LET f == featureConfig.features[k]
                  x == Cell(data[i], f)
              IN (IsCategorical(featureConfig, f) /\ Present(x)) =>
                     DecodeClass(run.encodingMaps[f], EncodedIndex(i, k)) = JsString(x)
    /\ (IsSome(run.target) /\ ~TheValue(run.target).thrown
          /\ IsCategorical(featureConfig, featureConfig.target)) =>
          \A i \in 1..Len(data) :
              LET x == Cell(data[i], featureConfig.target)
              IN Present(x) =>
                     DecodeClass(TheValue(run.target).targetEncoding, labels[i]) = JsString(x)

\* the first row at which a string occurs in a column of strings
FirstRow(col, v) == CHOOSE i \in 1..Len(col) : col[i] = v /\ \A j \in 1..(i - 1) : col[j] # v

\* C8: the encoding map of a categorical feature is injective on the distinct
\* stringified values of the column, its indices are exactly 0..k-1, and the
\* index of a value is the number of distinct values first met before it.
C8_FirstSeenIndices ==
    "prepare" \in Range(run.stages) =>
        \A f \in CategoricalFeatures(featureConfig) :
            LET col == ColumnStrings(data, f)
                map == run.encodingMaps[f]
                k == Cardinality(Range(col))
            IN /\ DOMAIN map = Range(col)
               /\ \A v, w \in DOMAIN map : map[v] = map[w] => v = w
               /\ {map[v] : v \in DOMAIN map} = 0..(k - 1)
               /\ \A v \in DOMAIN map :
                     map[v] = Cardinality({w \in Range(col) : FirstRow(col, w) < FirstRow(col, v)})

\* C9: for the numeric target 1..10 the median is 5.5, the labels are
\* 0,0,0,0,0,1,1,1,1,1 and the target encoding is "> 5.500" -> 1, "<= 5.500" -> 0.
C9_MedianOfOneToTen ==
    (data = MedianScenario /\ IsSome(run.target)) =>
        LET t == TheValue(run.target)
        IN /\ ~t.thrown
           /\ IsSome(t.median)
           /\ 2 * TheValue(t.median) = 11
           /\ t.labels = <<0, 0, 0, 0, 0, 1, 1, 1, 1, 1>>
           /\ t.targetEncoding = ("> 5.500" :> 1) @@ ("<= 5.500" :> 0)

\* the evaluator was given predictions identical to the labels of a binary test set
IdenticalBinary ==
    /\ IsSome(evOut)
    /\ TheValue(evIn).predictions = TheValue(evIn).testY
    /\ Range(TheValue(evIn).testY) \subseteq {0, 1}

\* C10 as stated: predictions identical to the labels of a non-empty binary
\* test set, with or without a class-1 sample, give accuracy = precision =
\* recall = f1 = 100 and fp = fn = 0.
C10_PerfectScores ==
    IdenticalBinary =>
        LET m == TheValue(evOut)
        IN /\ m.accuracy = RatInt(100)
           /\ m.precision = RatInt(100)
           /\ m.recall = RatInt(100)
           /\ m.f1Score = RatInt(100)
           /\ m.confusionMatrix.fp = 0
           /\ m.confusionMatrix.fn = 0

\* C10 amended: predictions identical to the labels of a non-empty binary test
\* set give accuracy = 100 and fp = fn = 0; precision = recall = f1 = 100 when
\* the test set has a class-1 sample and precision = recall = f1 = 0 when it has none.
C10_PerfectScoresGivenPositives ==
    IdenticalBinary =>
        LET m == TheValue(evOut)
            score == IF 1 \in Range(TheValue(evIn).testY) THEN RatInt(100) ELSE RatInt(0)
        IN /\ m.accuracy = RatInt(100)
           /\ m.precision = score
           /\ m.recall = score
           /\ m.f1Score = score
           /\ m.confusionMatrix.fp = 0
           /\ m.confusionMatrix.fn = 0

\* a test set with both classes was evaluated against itself
C10_Witness ==
    /\ IdenticalBinary
    /\ Len(TheValue(evIn).testY) >= 3
    /\ Range(TheValue(evIn).testY) = {0, 1}
    /\ TheValue(evOut).precision = RatInt(100)

\* the test rows predicted as class p whose label is class t
PairCount(p, t) ==
    Cardinality({i \in 1..Len(testY) : run.predictions[i] = p /\ testY[i] = t})

\* C11: for every prediction/label pair the pipeline produces, categorical
\* targets of three or more classes included, tp = #(pred=1,true=1),
\* tn = #(pred=0,true=0), fp = #(pred=1,true=0), fn = #(pred=0,true=1), and the
\* number of correct predictions behind the accuracy is tp + tn.
C11_ConfusionCounts ==
    IsSome(run.modelMetrics) =>
        LET m == TheValue(run.modelMetrics)
        IN /\ m.confusionMatrix.tp = PairCount(1, 1)
           /\ m.confusionMatrix.tn = PairCount(0, 0)
           /\ m.confusionMatrix.fp = PairCount(1, 0)
           /\ m.confusionMatrix.fn = PairCount(0, 1)
           /\ m.accuracy = Percent(Rat(m.confusionMatrix.tp + m.confusionMatrix.tn, Len(testY)))

\* the reported importances, their exact sum, and the exact accuracy differences
Reported == [k \in 1..Len(run.importance) |-> run.importance[k].importance]
ReportedSum == RatSum(Reported)
ExactDrop(k) ==
    RatSub(Rat(Hits(run.predictions, testY), Len(testY)),
           Rat(run.permutedHits[k], Len(testY)))
RatAbs(r) == [num |-> Abs(r.num), den |-> r.den]
RatLe(a, b) == ~RatGt(a, b)

\* one entry per configured feature, in feature order, and none below 0
OnePerFeature ==
    /\ Len(run.importance) = Len(featureConfig.features)
    /\ Len(run.rawImportance) = Len(featureConfig.features)
    /\ \A k \in 1..Len(run.importance) :
          /\ run.importance[k].feature = featureConfig.features[k]
          /\ RatLe(RatInt(0), run.importance[k].importance)
          /\ RatLe(RatInt(0), run.rawImportance[k])

\* C12 as stated: each raw importance is max(0, baseline - permuted) >= 0, and
\* the reported importances, one per configured feature in feature order, are
\* all 0 when the raw total is 0 and otherwise non-negative and sum to 100.
C12_ImportanceSumsTo100 ==
    "importance" \in Range(run.stages) =>
        /\ OnePerFeature
        /\ \A k \in 1..Len(run.rawImportance) :
              run.rawImportance[k] = RatMax(RatInt(0), ExactDrop(k))
        /\ IF RatSum(run.rawImportance) = RatInt(0)
           THEN \A k \in 1..Len(Reported) : Reported[k] = RatInt(0)
           ELSE ReportedSum = RatInt(100)

\* the rounding error a sum of k rounded percentages stays within
SumTolerance(k) == Rat(100 * (2 * k + 2), Pow2(MantissaBits))

\* C12 amended: each raw importance is max(0, baseline - permuted) as the
\* arithmetic rounds it, so it is >= 0, it is 0 exactly when the permuted
\* accuracy is not below the baseline, and it is within rounding of the exact
\* difference otherwise; the reported importances, one per configured feature
\* in feature order, are all 0 when the raw total is 0 and otherwise
\* non-negative with a sum that is 100 up to rounding.
C12_ImportanceSumsNear100 ==
    "importance" \in Range(run.stages) =>
        /\ OnePerFeature
        /\ \A k \in 1..Len(run.rawImportance) :
              IF RatGt(ExactDrop(k), RatInt(0))
              THEN RatLe(RatAbs(RatSub(run.rawImportance[k], ExactDrop(k))),
                         Rat(3, Pow2(MantissaBits)))
              ELSE run.rawImportance[k] = RatInt(0)
        /\ IF RatSum(run.rawImportance) = RatInt(0)
           THEN \A k \in 1..Len(Reported) : Reported[k] = RatInt(0)
           ELSE RatLe(RatAbs(RatSub(ReportedSum, RatInt(100))), SumTolerance(Len(Reported)))

\* two features lost accuracy, one twice as much as the other, and the
\* percentages reported for them do not add up to 100
C12_Witness ==
    /\ "importance" \in Range(run.stages)
    /\ run.rawImportance = <<RatInt(1), Rat(1, 2)>>
    /\ ReportedSum # RatInt(100)

\* the trees of the last prediction that answered, and those that answered c
Voters == {k \in 1..Len(lastPredict.votes) : lastPredict.votes[k] # TreeThrows}
VotersFor(c) == {k \in Voters : lastPredict.votes[k] = c}
\* the most votes any class got
MostVotes ==
    CHOOSE n \in 0..Len(lastPredict.votes) :
        /\ \A c \in Range(lastPredict.votes) \ {TreeThrows} : Cardinality(VotersFor(c)) <= n
        /\ Voters # {} => \E c \in Range(lastPredict.votes) : Cardinality(VotersFor(c)) = n

\* C13: for every successful prediction, confidence = (trees that voted for
\* the class with the most successful votes) / (trees that voted without
\* throwing), a tree that throws being skipped; with no successful vote the
\* confidence is 0.5.  Hence confidence is 0.5 or lies in (0, 1].
C13_ConfidenceOfWinner ==
    lastPredict.status = "ok" =>
        LET confidence == recentPredictions[1].confidence
        IN /\ confidence = IF Voters = {} THEN Rat(1, 2)
                           ELSE Rat(MostVotes, Cardinality(Voters))
           /\ \/ confidence = Rat(1, 2)
              \/ RatGt(confidence, RatInt(0)) /\ RatLe(confidence, RatInt(1))

\* C14: over any sequence of uploads, training runs, predictions, version
\* loads and file loads the version history only grows: the step of a
\* training run that succeeded puts exactly one entry in front of it, and no
\* other step (of a failed run, a version load, a file load or anything else)
\* adds, removes, reorders or changes an entry.
C14_HistoryOnlyGrows ==
    [][IF pc = "finish"
       THEN /\ Len(modelVersionHistory') = Len(modelVersionHistory) + 1
            /\ SubSeq(modelVersionHistory', 2, Len(modelVersionHistory')) = modelVersionHistory
            /\ modelVersionHistory'[1].version = currentModelVersion
            /\ modelVersionHistory'[1].model = TheValue(run.classifier)
       ELSE modelVersionHistory' = modelVersionHistory]_vars

\* two training runs succeeded and a version was loaded since: the history
\* holds v1.1 in front of v1.0
C14_Witness ==
    /\ Len(modelVersionHistory) = 2
    /\ modelVersionHistory[1].version = "v1.1"
    /\ modelVersionHistory[2].version = "v1.0"
    /\ LastToast = Toast("success", "Loaded v1.0")

SuccessfulPredictions ==
    Cardinality({i \in DOMAIN toasts : toasts[i] = Toast("success", "Prediction")})
C16_RecentPredictions ==
    LET k == SuccessfulPredictions
        n == Min(k, 10)
    IN /\ Len(predictionLog) = k
       /\ Len(recentPredictions) = n
       /\ \A i \in 1..n : recentPredictions[i] = predictionLog[k - i + 1]

\* eleven predictions succeeded, of both classes, and the twelfth failed
C16_Witness ==
    /\ SuccessfulPredictions = 11
    /\ predictAttempts = 12
    /\ LastToast.kind = "error"
    /\ predictionLog[1] # predictionLog[2]
    /\ predictionLog[10] # predictionLog[11]

\* C17: when the file that loadModel reads is corrupt or incompatible (it is
\* not JSON, or it lacks classifier.options, classifier.trees, metrics,
\* featureImportance or featureConfig), an error is reported and the active
\* model, metrics, feature importance, feature config and dataset stay as
\* they were.
Incompatible(text) ==
    \/ ~text.json
    \/ ~IsSome(text.doc.classifier)
    \/ ~IsSome(TheValue(text.doc.classifier).options)
    \/ ~IsSome(TheValue(text.doc.classifier).trees)
    \/ ~IsSome(text.doc.metrics)
    \/ ~IsSome(text.doc.featureImportance)
    \/ ~IsSome(text.doc.featureConfig)
C17_CorruptFileRejected ==
    [][\A text \in reading :
          (reading' = reading \ {text} /\ Incompatible(text)) =>
              /\ Len(toasts') = Len(toasts) + 1
              /\ toasts'[Len(toasts')].kind = "error"
              /\ UNCHANGED <<trainedModel, performanceMetrics, featureImportanceData,
                             config, data>>]_vars

\* C20: the file that saveModel writes for the active model, when loadModel
\* reads it, hands to onModelLoaded the options, metrics, feature importance
\* and feature config that were saved and one estimator for each saved tree,
\* with its root and gain, in the order of the trees.
LoadedFrom(text) ==
    LET modelData == JsonParse(text).value
    IN [model |-> RebuiltClassifier(TheValue(modelData.classifier)),
        metrics |-> modelData.metrics,
        featureImportance |-> modelData.featureImportance,
        featureConfig |-> modelData.featureConfig]
ImportanceOf(loaded) == IF IsSome(loaded) THEN TheValue(loaded) ELSE None
SameTrees(loaded, saved) ==
    /\ Len(loaded) = Len(saved)
    /\ \A k \in 1..Len(saved) : loaded[k].root = saved[k].root /\ loaded[k].gain = saved[k].gain
C20_SaveLoadRoundTrip ==
    [][/\ \A text \in downloads' \ downloads :
             LET loaded == LoadedFrom(text)
                 model == TheValue(trainedModel)
             IN /\ loaded.model.options = model.options
                /\ loaded.metrics = performanceMetrics
                /\ ImportanceOf(loaded.featureImportance) = featureImportanceData
                /\ loaded.featureConfig = config
                /\ SameTrees(loaded.model.estimators, model.estimators)
       /\ \A text \in reading \cap downloads :
             reading' = reading \ {text} =>
                /\ trainedModel' = Some(LoadedFrom(text).model)
                /\ performanceMetrics' = LoadedFrom(text).metrics
                /\ featureImportanceData' = ImportanceOf(LoadedFrom(text).featureImportance)
                /\ config' = LoadedFrom(text).featureConfig]_vars

\* C18: a rejected upload leaves nothing behind, so whenever no parse is
\* under way the file name an upload card holds is that of the file whose
\* rows are loaded: in the Stats Lab isValid, the data, the columns and the
\* types are those of the file named, or nothing is named and nothing is
\* loaded; in FileUpload likewise for the file and parsedData.
LabShows(file) ==
    /\ isValid
    /\ fileName = file.name
    /\ labData = file.rows
    /\ labColumns = file.header
    /\ DOMAIN labColumnTypes = Range(file.header)
LabShowsNothing == ~isValid /\ fileName = "" /\ labData = <<>> /\ labColumns = <<>>
UploadShows(file) ==
    /\ showConfigPanel
    /\ uploadedFile = Some(file)
    /\ parsedData = file.rows
    /\ columnNames = file.header
UploadShowsNothing == ~showConfigPanel /\ uploadedFile = None /\ parsedData = <<>>
C18_RejectedUploadLeavesNoTrace ==
    /\ labParsing = {} => (LabShowsNothing \/ \E file \in LabFiles : LabShows(file))
    /\ parsing = {} => (UploadShowsNothing \/ \E file \in UploadFiles : UploadShows(file))

\* C19: the dataset and the feature configuration that FileUpload hands
\* over have a non-empty feature list that does not hold the target, and
\* the target and every feature are columns of that dataset, whatever the
\* order of file selections, toggles, target selections, resets and
\* completions of the parses.
C19_HandedOverConfigFitsData ==
    IsSome(config) =>
        /\ featureConfig.features # <<>>
        /\ featureConfig.target \notin Range(featureConfig.features)
        /\ \A i \in 1..Len(data) :
              Range(featureConfig.features) \cup {featureConfig.target} \subseteq DOMAIN data[i]

----------------------------------------------------------------------------
(* components/ResultsVisualization.tsx: the CSV export of the history.      *)
(* A line of the file is kept as the sequence of fields a CSV reader makes   *)
(* of it, that is, the text between its commas.                              *)

MaxExportToasts == 7

\* Object.keys of a form object: the form is initialised from a features
\* list, whose names are taken in the order of the columns
ColumnOrder == <<"x1", "x2">>
ObjectKeys(obj) == SelectSeq(ColumnOrder, LAMBDA f : f \in DOMAIN obj)

\* PredictionForm.tsx:101, new Date().toLocaleString(): the text depends on
\* the locale of the browser; en-US gives "11/3/2026, 5:45:56 PM", sv-SE
\* gives "2026-11-03 17:45:56"
Locales == {"en-US", "sv-SE"}
ToLocaleString(locale) ==
    IF locale = "en-US" THEN <<"11/3/2026", " 5:45:56 PM">> ELSE <<"2026-11-03 17:45:56">>

\* (x).toFixed(1) of a non-negative rational
ToFixed1(x) ==
    LET tenths == (20 * x.num + x.den) \div (2 * x.den)
    IN ToString(tenths \div 10) \o "." \o ToString(tenths % 10)

\* String(v) of a row element; an absent key reads undefined, which join
\* writes as the empty string
FieldText(obj, key) == IF key \in DOMAIN obj THEN obj[key] ELSE ""

\* array.join(","): the fields of the line; a text standing for several
\* comma-separated parts contributes all of them
RECURSIVE JoinComma(_)
JoinComma(texts) ==
    IF texts = <<>> THEN <<>> ELSE Head(texts) \o JoinComma(Tail(texts))

\* lines 57-79: the lines of csvContent
CsvContent(predictions, locale) ==
    LET inputKeys == ObjectKeys(predictions[1].inputs)
        headers == <<"Timestamp">> \o inputKeys \o <<"Prediction", "Confidence %">>
        row(p) == <<ToLocaleString(locale)>>
                  \o [j \in 1..Len(inputKeys) |-> <<FieldText(p.inputs, inputKeys[j])>>]
                  \o << <<p.prediction>>,
                        <<ToFixed1(RatMul(p.confidence, RatInt(100)))>> >>
    IN <<headers>> \o [i \in 1..Len(predictions) |-> JoinComma(row(predictions[i]))]

\* lines 56-91, from the Export CSV button, shown when the history is not empty
handleExport(locale) ==
    /\ pc = "idle"
    /\ ~formMounted
    /\ recentPredictions # <<>>
    /\ exported' = Some(CsvContent(recentPredictions, locale))
    /\ toasts' = Append(toasts, Toast("success", "Predictions exported"))
    /\ UNCHANGED <<viewVars, trainVars, formVars, fitCalls, predictAttempts, predictCalls,
                   lastPredict, hyperVars, evalVars, logVars, uploadVars, labVars, fileVars,
                   statVars>>

\* the upload tab hands over dataset d with the ticked features and target y
UploadSelection(d, features) ==
    /\ pc = "idle"
    /\ ~formMounted
    /\ onDataUpload(d, FeatureConfiguration(d, features, "y"))
    /\ UNCHANGED <<trainVars, formVars, fitCalls, predictAttempts, predictCalls, lastPredict,
                   hyperVars, evalVars, restVars>>

\* a session in which the dataset is uploaded with one or with two features
\* ticked, models are trained, predictions are made and the history is exported
ExportDataset == Dataset(MinRows, DefaultX1, DefaultX2, DefaultY)
Selections == {<<"x1", "x2">>, <<"x2">>}

InitExport ==
    /\ FreshSession
    /\ pc = "idle"
    /\ FreshComponents
    /\ NoPureCalls

ExportBudget == Len(toasts) < MaxExportToasts

NextExport ==
    \/ ExportBudget /\ \E features \in Selections : UploadSelection(ExportDataset, features)
    \/ ExportBudget /\ ClickTrain
    \/ TrainModelStart
    \/ StepPrepare
    \/ StepEncode
    \/ StepTarget
    \/ StepShuffle(ZeroDraws(Len(data)))
    \/ StepFit(StumpForests(Range(trainY)))
    \/ StepEvaluate(OneOutput(ForestClasses, testY))
    \/ StepImportance(OneOutput(ForestClasses, testY))
    \/ StepFinish
    \/ StepFinally
    \/ MountPredictionForm
    \/ UnmountPredictionForm
    \/ /\ formMounted
       /\ \E f \in Range(featureConfig.features) :
             handleInputChange(f, IF f = "x1" THEN "a" ELSE "2")
    \/ ExportBudget /\ handlePredict(AgreeingOutcomes(TheValue(trainedModel)))
    \/ ExportBudget /\ \E locale \in Locales : handleExport(locale)

SpecExport == InitExport /\ [][NextExport]_vars

\* C21: for a non-empty prediction history, whose records may have been
\* made with different models and feature configurations, handleExport
\* writes the header Timestamp, each input feature, Prediction,
\* Confidence %, then one row per stored prediction in stored order; every
\* row has as many fields as the header, every input value of a record
\* stands under the column of its own feature, and the confidence is the
\* percentage with one decimal.
ExportedRowFits(header, row, p) ==
    /\ Len(row) = Len(header)
    /\ \A f \in DOMAIN p.inputs :
          \E j \in 1..Len(header) : header[j] = f /\ row[j] = p.inputs[f]
    /\ row[Len(header) - 1] = p.prediction
    /\ row[Len(header)] = ToFixed1(RatMul(p.confidence, RatInt(100)))
ExportedFits(csv, predictions) ==
    /\ Len(csv) = Len(predictions) + 1
    /\ csv[1] = <<"Timestamp">> \o ObjectKeys(predictions[1].inputs)
                  \o <<"Prediction", "Confidence %">>
    /\ \A i \in 1..Len(predictions) : ExportedRowFits(csv[1], csv[i + 1], predictions[i])
C21_ExportRowsFitHeader ==
    [][exported' # exported => ExportedFits(TheValue(exported'), recentPredictions)]_vars

----------------------------------------------------------------------------
(* The split of datasets whose classes are balanced or skewed *)

\* a target column with two rows of the minority class, the first and the last
SkewedY == [i \in 1..MinRows |-> IF i \in {1, MinRows} THEN Str("q") ELSE Str("p")]

InitStratify ==
    \E d \in SizedDatasets \cup {Dataset(MinRows, DefaultX1, DefaultX2, SkewedY)} : Uploaded(d)

SpecStratify == InitStratify /\ [][NextSplit]_vars

\* C22: the 80/20 split is stratified: the share of every class in the
\* training and in the test subset is its share in the dataset, up to
\* rounding (here: within one row of the exact share), and a dataset of two classes never gives a training subset of
\* one class.
CountOf(seq, c) == Cardinality({i \in 1..Len(seq) : seq[i] = c})
C22_SplitIsStratified ==
    (run.stages # <<>> /\ run.stages[Len(run.stages)] = "shuffle") =>
        /\ \A c \in Range(labels) :
              /\ 10 * CountOf(trainY, c) >= 8 * CountOf(labels, c) - 10
              /\ 10 * CountOf(trainY, c) <= 8 * CountOf(labels, c) + 10
              /\ 10 * CountOf(testY, c) >= 2 * CountOf(labels, c) - 10
              /\ 10 * CountOf(testY, c) <= 2 * CountOf(labels, c) + 10
        /\ Cardinality(Range(labels)) = 2 => Cardinality(Range(trainY)) = 2

\* C23: the ROC curve has exactly 21 points, and for every pair of
\* predictions and labels the pipeline can produce, the tp, fp, tn and fn
\* the ROC loop counts again are the counts of the reported confusion
\* matrix, so that every point is (fp / (fp + tn), tp / (tp + fn)) of that
\* matrix, with 0 for a denominator of 0.
C23_RocPointsFromMatrix ==
    IsSome(evOut) =>
        LET m == TheValue(evOut)
            cm == m.confusionMatrix
            counts == RocCounts(TheValue(evIn).predictions, TheValue(evIn).testY)
        IN /\ Len(m.rocCurve) = RocSteps
           /\ counts = cm
           /\ \A k \in 1..Len(m.rocCurve) :
                 m.rocCurve[k] =
                     [fpr |-> IF cm.fp + cm.tn > 0 THEN Rat(cm.fp, cm.fp + cm.tn) ELSE RatInt(0),
                      tpr |-> IF cm.tp + cm.fn > 0 THEN Rat(cm.tp, cm.tp + cm.fn) ELSE RatInt(0)]

\* C24: the reported auc is exactly 0 for every pair of predictions and
\* labels: the 21 points of the curve share one fpr, so every trapezoid has
\* width 0.
C24_AucIsZero ==
    IsSome(evOut) =>
        LET m == TheValue(evOut)
        IN /\ \A k \in 1..Len(m.rocCurve) : m.rocCurve[k].fpr = m.rocCurve[1].fpr
           /\ m.auc = RatInt(0)

\* a curve whose points lie at fpr 1/2 and tpr 1 was given the area 0
C24_Witness ==
    /\ IsSome(evOut)
    /\ TheValue(evIn).predictions = <<1, 1, 0>>
    /\ TheValue(evIn).testY = <<1, 0, 0>>
    /\ TheValue(evOut).rocCurve[RocSteps] = [fpr |-> Rat(1, 2), tpr |-> RatInt(1)]
    /\ TheValue(evOut).auc = RatInt(0)

----------------------------------------------------------------------------
(* Training again in a session that may hold a model: runs that succeed and *)
(* runs that fail at the size validation, at the target, in train and in    *)
(* the two predict calls.                                                    *)

MaxRetrainToasts == 5

RetrainDatasets ==
    {Dataset(MinRows, DefaultX1, DefaultX2, DefaultY),
     Dataset(MinRows - 1, DefaultX1, DefaultX2, DefaultY),
     Dataset(MinRows, DefaultX1, DefaultX2, <<Str("p")>>),
     Dataset(MinRows, <<Str("a"), Str(ProtoKey)>>, DefaultX2, DefaultY)}

InitRetrain ==
    /\ FreshSession
    /\ pc = "idle"
    /\ FreshComponents
    /\ NoPureCalls

RetrainBudget == Len(toasts) < MaxRetrainToasts

NextRetrain ==
    \/ RetrainBudget /\ \E d \in RetrainDatasets : UploadDataset(d)
    \/ RetrainBudget /\ ClickTrain
    \/ TrainModelStart
    \/ StepPrepare
    \/ StepEncode
    \/ StepTarget
    \/ StepShuffle(ZeroDraws(Len(data)))
    \/ StepFit(StumpForests(Range(trainY)))
    \/ StepEvaluate(OneOutput(ForestClasses, testY))
    \/ StepImportance(OneOutput(ForestClasses, testY))
    \/ StepFinish
    \/ StepFinally

SpecRetrain == InitRetrain /\ [][NextRetrain]_vars

\* C25: a training run that fails at any stage (size validation, target
\* check, an exception in train, in the evaluation or in the importance
\* step) leaves the active model, the metrics, the importance, the version
\* history and the current version label as they were, and whenever
\* trainModel has finished, isTraining is false and the step text is empty.
\* A step of a run that reports an error goes straight to the end of the
\* run, and only the hand-over after the last stage changes the session.
sessionState ==
    <<trainedModel, performanceMetrics, featureImportanceData, modelVersionHistory,
      currentModelVersion>>
ReportsError == Len(toasts') > Len(toasts) /\ toasts'[Len(toasts')].kind = "error"
C25_FailedRunKeepsSession ==
    [][pc # "idle" =>
          /\ ReportsError => (pc' \in {"finally", "idle"} /\ UNCHANGED sessionState)
          /\ pc' = "finally" => (UNCHANGED sessionState \/ (pc = "finish" /\ ~ReportsError))
          /\ sessionState' # sessionState => pc = "finish"
          /\ pc' = "idle" => (~isTraining' /\ trainingStep' = "")]_vars

\* with version v1.0 active, a second run was evaluated and failed in the
\* importance step
C25_Witness ==
    /\ pc = "idle"
    /\ IsSome(trainedModel)
    /\ Len(modelVersionHistory) = 1
    /\ run.stages # <<>>
    /\ run.stages[Len(run.stages)] = "evaluate"
    /\ LastToast.kind = "error"
    /\ ~isTraining
    /\ trainingStep = ""

\* C26: after any sequence of uploads, training runs and loads, whenever a
\* trained model is active, the feature configuration handed to
\* PredictionForm (and written as featureConfig at the top of an exported
\* model file) is the one stored in the options of that model.
C26_ConfigIsOfActiveModel ==
    IsSome(trainedModel) =>
        /\ IsSome(config)
        /\ featureConfig = TheValue(trainedModel).options.featureConfig

\* C27: currentVersion is the version of the active model: when the
\* history holds the active model, an entry that holds it has the version
\* currentVersion, so that it is shown as Active with its Load button
\* disabled.
HoldsActiveModel(entry) == entry.model = TheValue(trainedModel)
ShownActive(entry) == entry.version = currentModelVersion
C27_CurrentVersionIsActive ==
    (pc = "idle" /\ IsSome(trainedModel)) =>
        ((\E k \in 1..Len(modelVersionHistory) : HoldsActiveModel(modelVersionHistory[k]))
            => \E k \in 1..Len(modelVersionHistory) :
                  HoldsActiveModel(modelVersionHistory[k]) /\ ShownActive(modelVersionHistory[k]))

----------------------------------------------------------------------------
(* components/ResultsVisualization.tsx: the table "Recent" *)

\* shown rows, lines 183-197: predictions.slice(-5).reverse()
RecentRows(predictions) ==
    LET n == Len(predictions)
        from == IF n > 5 THEN n - 4 ELSE 1
        last == SubSeq(predictions, from, n)
    IN [k \in 1..Len(last) |-> last[Len(last) + 1 - k]]

\* C28: for a history of n predictions, kept most recent first, the table
\* "Recent" lists the min(n, 5) most recently made predictions (in
\* whatever order).
C28_RecentTableShowsNewest ==
    LET n == Len(recentPredictions)
        newest == SubSeq(recentPredictions, 1, Min(n, 5))
        rows == RecentRows(recentPredictions)
    IN /\ Len(rows) = Min(n, 5)
       /\ \A r \in Range(rows) \cup Range(newest) : CountOf(rows, r) = CountOf(newest, r)

----------------------------------------------------------------------------
(* components/ModelSaveLoad.tsx: predictTree, lines 110-119 *)

\* the walk from node down to a leaf; the trees of the model are leaves, an
\* inner node would send the sample left iff sample[node.column] < node.value
predictTree(node, sample) == node.category

\* C29: for a model rebuilt from an exported file, the vote of each tree in
\* the confidence score is the category of the leaf reached by walking the
\* tree on the transformed input vector, and that class id is the key
\* under which the vote is counted.
C29_RebuiltTreeVotesItsLeaf ==
    [][(/\ IsSome(trainedModel)
        /\ ~TheValue(trainedModel).trained
        /\ predictCalls' = predictCalls + 1
        /\ lastPredict'.status = "ok")
          => \A k \in 1..Len(TheValue(trainedModel).estimators) :
                lastPredict'.votes[k] =
                    predictTree(TheValue(trainedModel).estimators[k].root, lastPredict'.features)]_vars

----------------------------------------------------------------------------
(* components/analysis/StatisticalTests.tsx: the one-sample t-test.         *)
(* The texts of mean, std, se and t and the normality figures of the        *)
(* assumptions are square roots and quotients that the result keeps as      *)
(* text; the model keeps what decides the p-value: whether t exceeds 2.     *)

\* longest column given to the test
MaxTTestRows == 6

\* line 33: the columns offered in the Variable select
numericColumns == SelectSeq(labColumns, LAMBDA col : labColumnTypes[col] = "numeric")

\* onValueChange of the Variable select, lines 358-367
setVariable1(col) ==
    /\ isValid
    /\ col \in Range(numericColumns)
    /\ variable1' = col
    /\ UNCHANGED <<viewVars, trainVars, formVars, obsVars, hyperVars, evalVars, logVars,
                   uploadVars, labVars, fileVars, exportVars, results, assumptions>>

\* line 110: data.map(row => Number(row[variable1])).filter(v => !isNaN(v))
TTestValues(rows, col) ==
    LET numbers == [i \in 1..Len(rows) |-> JsNumber(Cell(rows[i], col))]
        kept == SelectSeq(numbers, LAMBDA v : ~v.nan)
    IN [i \in 1..Len(kept) |-> kept[i].n]

\* lines 111-116: t = mean / (sqrt(variance) / sqrt(n)) > 2, decided without
\* taking the roots. With no value the mean is 0/0, with one value the
\* variance is 0/0: t is NaN and no comparison with NaN holds. With
\* variance 0, t is mean/0: Infinity for a positive mean.
TExceeds2(values) ==
    LET n == Len(values)
        mean == RatDiv(RatSum([i \in 1..n |-> RatInt(values[i])]), RatInt(n))
        squares == [i \in 1..n |-> RatMul(RatSub(RatInt(values[i]), mean),
                                          RatSub(RatInt(values[i]), mean))]
        variance == RatDiv(RatSum(squares), RatInt(n - 1))
    IN IF n < 2 THEN FALSE
       ELSE /\ RatGt(mean, RatInt(0))
            /\ RatGt(RatMul(RatMul(mean, mean), RatInt(n)), RatMul(RatInt(4), variance))

\* line 119
PValue(values) == IF TExceeds2(values) THEN Rat(5, 100) ELSE Rat(1, 10)

\* (p).toFixed(4) of a p in [0, 1)
ToFixed4(p) ==
    LET k == (20000 * p.num + p.den) \div (2 * p.den)
        digits == ToString(k)
    IN "0." \o (CASE k < 10 -> "000" [] k < 100 -> "00" [] k < 1000 -> "0" [] OTHER -> "")
            \o digits

\* significance at p <= 0.05
Significant_AtMost(pValue) == ~RatGt(pValue, Rat(5, 100))
\* line 134: pValue < 0.05
Significant(pValue) == RatGt(Rat(5, 100), pValue)

\* lines 107-145, from the Run button with the test type "ttest"
performTTest ==
    /\ isValid
    /\ variable1 # ""
    /\ LET values == TTestValues(labData, variable1)
           pValue == PValue(values)
       IN /\ results' = Some([test |-> "One-Sample T-Test",
                              variable |-> variable1,
                              n |-> Len(values),
                              df |-> Len(values) - 1,
                              tExceeds2 |-> TExceeds2(values),
                              pValue |-> ToFixed4(pValue),
                              significant |-> Significant(pValue)])
          /\ assumptions' = Some([testType |-> "ttest"])
    /\ UNCHANGED <<viewVars, trainVars, formVars, obsVars, hyperVars, evalVars, logVars,
                   uploadVars, labVars, fileVars, exportVars, variable1>>

\* the files of the t-test sessions: a column v of numbers, texts and empty
\* cells next to a column g of texts
TTestPool == {Num(0), Num(1), Num(3), Str("a"), Null}
TTestFiles ==
    {CsvFile("v.csv", <<"v", "g">>,
             [i \in 1..Len(column) |-> [v |-> column[i], g |-> Str("u")]], FALSE) :
        column \in UNION {[1..k -> TTestPool] : k \in 3..MaxTTestRows}}

InitTTest == FreshSession /\ pc = "idle" /\ FreshComponents /\ NoPureCalls

NextTTest ==
    \/ /\ fileName = ""
       /\ \E file \in TTestFiles : handleFile(file)
    \/ \E file \in labParsing : LabParseComplete(file)
    \/ \E col \in Range(labColumns) : setVariable1(col)
    \/ performTTest

SpecTTest == InitTTest /\ [][NextTTest]_vars

\* C30: for every input column the one-sample t-test reports significant =
\* false: the p-value is 0.05 (when t > 2) or 0.1, and significance is
\* pValue < 0.05.
C30_TTestNeverSignificant ==
    IsSome(results) =>
        LET r == TheValue(results)
        IN /\ r.pValue = (IF r.tExceeds2 THEN "0.0500" ELSE "0.1000")
           /\ ~r.significant

\* a column of six cells, one of them a text and the others 1 and 3, whose
\* t exceeds 2, was reported with p = 0.0500 and not significant
C30_Witness ==
    /\ IsSome(results)
    /\ Len(labData) = 6
    /\ TheValue(results).n = 5
    /\ \E i \in 1..Len(labData) : labData[i].v = Str("a")
    /\ \E i \in 1..Len(labData) : labData[i].v = Num(3)
    /\ \E i \in 1..Len(labData) : labData[i].v = Num(1)
    /\ TheValue(results).tExceeds2
    /\ TheValue(results).pValue = "0.0500"
    /\ ~TheValue(results).significant

====
